---- MODULE Spec2Model ----
(***************************************************************************)
(* A model of the matchbox concurrent trie (ctrie): a lock-free trie whose *)
(* keys are the words of a topic and whose values are sets of subscribers, *)
(* with wildcard lookup, GCAS updates and RDCSS snapshots.                 *)
(*                                                                         *)
(* The heap is modelled at pointer level: indirection nodes, main nodes    *)
(* and RDCSS descriptors are numbered objects, a pointer is the number of  *)
(* its object and 0 is the nil pointer. Every thread runs its calls as a   *)
(* stack of frames, and one step of a thread performs at most one access   *)
(* to a shared mutable cell (an I-node's main pointer, a main node's prev  *)
(* pointer, a trie's root slot, a descriptor's committed flag).            *)
(***************************************************************************)
EXTENDS Integers, Sequences, FiniteSets, Bags, TLC

VARIABLES
    inodes,     \* heap of iNode objects: [main, gen]
    mains,      \* heap of mainNode objects: [kind, branches, gen, failed, prev]
    descs,      \* heap of rdcssDescriptor objects: [old, expected, nv, committed]
    tries,      \* the ctrie handles: [root, readOnly]
    ngen,       \* number of distinct generation addresses handed out so far
    stack,      \* per thread: the call stack, top frame first
    ret,        \* per thread: the value returned by the last call that returned
    status,     \* per thread: "idle", "run", "done", "panic"
    cur,        \* per thread: the public call in progress or just finished
    script,     \* per thread: the calls still to make, each a set to choose from
    restarts,   \* per thread: restarts of the public call in progress
    atCall,     \* per thread: what the handles held when the call was made
    look,       \* results of the last Lookup of a topic on a handle not mutated since
    reg,        \* per handle: the pairs inserted and not removed by completed calls
    halted,     \* "" while the process runs, else the fault that stopped it
    stray,      \* TRUE once rdcssRoot has returned something else than the flag
    hist        \* per thread: the public calls made so far, the last one last

vars == <<inodes, mains, descs, tries, ngen, stack, ret, status, cur, script,
          restarts, atCall, look, reg, halted, stray, hist>>

(***************************************************************************)
(* Bounds of the model.                                                    *)
(***************************************************************************)
\* Largest number of distinct addresses the generation tokens may take.
MaxGen == 2
\* Restarts of one public call after which the model stops following it.
MaxRestarts == 2
\* Rounds of the loop of Snapshot and ReadOnlySnapshot after the first.
MaxRounds == 1
\* Longest topic, in words, that the wildcard scenarios draw.
MaxLen == 3

Nil == 0

(***************************************************************************)
(* Configuration.                                                          *)
(***************************************************************************)
amqpSingleWildcard == "*"
amqpZeroOrMoreWildcard == "#"
amqpDelimiter == "."

NewAMQPConfig ==
    [SingleWildcard |-> amqpSingleWildcard,
     ZeroOrMoreWildcard |-> amqpZeroOrMoreWildcard,
     Delimiter |-> amqpDelimiter]

\* Every trie of the model is built with the AMQP configuration.
config == NewAMQPConfig

(***************************************************************************)
(* strings.Split: a topic is a sequence of characters, a word is a string. *)
(***************************************************************************)
RECURSIVE SplitFrom(_, _, _, _)
SplitFrom(s, d, i, word) ==
    IF i > Len(s) THEN <<word>>
    ELSE IF s[i] = d THEN <<word>> \o SplitFrom(s, d, i + 1, "")
    ELSE SplitFrom(s, d, i + 1, word \o s[i])

Split(s, d) == SplitFrom(s, d, 1, "")

RECURSIVE reduceFrom(_, _, _)
reduceFrom(c, words, i) ==
    IF i > Len(words) THEN <<>>
    ELSE IF /\ words[i] = c.ZeroOrMoreWildcard
            /\ i + 1 <= Len(words)
            /\ words[i + 1] = c.ZeroOrMoreWildcard
         THEN reduceFrom(c, words, i + 1)
         ELSE <<words[i]>> \o reduceFrom(c, words, i + 1)

\* The words as they are: what the mutators would store were runs of
\* zero-or-more wildcards left alone.
unreduced(c, words) == words

reduceZeroOrMoreWildcards(c, words) == reduceFrom(c, words, 1)

(***************************************************************************)
(* Main nodes, C-nodes and branches.  A C-node is the value                *)
(* [branches, gen]; a main node that holds a C-node has kind "c", a tomb   *)
(* has kind "t", and the marker &mainNode{failed: prev} has kind "f".      *)
(***************************************************************************)
NilBranch == [nil |-> TRUE]

emptyBranches == <<>>

cMain(cn, prev) ==
    [kind |-> "c", branches |-> cn.branches, gen |-> cn.gen,
     failed |-> Nil, prev |-> prev]

tMain(prev) ==
    [kind |-> "t", branches |-> emptyBranches, gen |-> Nil,
     failed |-> Nil, prev |-> prev]

failedMain(p) ==
    [kind |-> "f", branches |-> emptyBranches, gen |-> Nil,
     failed |-> p, prev |-> Nil]

cNodeOf(m) == [branches |-> m.branches, gen |-> m.gen]

withBranch(branches, key, br) ==
    [k \in (DOMAIN branches) \cup {key} |->
        IF k = key THEN br ELSE branches[k]]

withoutBranch(branches, key) ==
    [k \in (DOMAIN branches) \ {key} |-> branches[k]]

\* A heap under construction: H.I are the iNodes, H.M the main nodes.
allocMain(H, m) == [H EXCEPT !.M = Append(H.M, m)]
allocINode(H, in) == [H EXCEPT !.I = Append(H.I, in)]

RECURSIVE newCNode(_, _, _, _)
newCNode(H, keys, sub, gen) ==
    IF Len(keys) = 1
    THEN [H |-> H,
          cn |-> [branches |-> (keys[1] :> [subs |-> {sub}, iNode |-> Nil]),
                  gen |-> gen]]
    ELSE LET r  == newCNode(H, Tail(keys), sub, gen)
             H1 == allocMain(r.H, cMain(r.cn, Nil))
             H2 == allocINode(H1, [main |-> Len(H1.M), gen |-> gen])
         IN [H |-> H2,
             cn |-> [branches |->
                        (keys[1] :> [subs |-> {}, iNode |-> Len(H2.I)]),
                     gen |-> gen]]

inserted(H, c, keys, sub, gen) ==
    IF Len(keys) = 1
    THEN [H |-> H,
          cn |-> [branches |->
                     withBranch(c.branches, keys[1],
                                [subs |-> {sub}, iNode |-> Nil]),
                  gen |-> gen]]
    ELSE LET r  == newCNode(H, Tail(keys), sub, gen)
             H1 == allocMain(r.H, cMain(r.cn, Nil))
             H2 == allocINode(H1, [main |-> Len(H1.M), gen |-> gen])
         IN [H |-> H2,
             cn |-> [branches |->
                        withBranch(c.branches, keys[1],
                                   [subs |-> {}, iNode |-> Len(H2.I)]),
                     gen |-> gen]]

branchUpdated(b, in) == [subs |-> b.subs, iNode |-> in]

branchRemoved(b, sub) == [subs |-> b.subs \ {sub}, iNode |-> b.iNode]

\* The subscribers of a branch as a slice: each key of the map once.
subscribers(b) == SetToBag(b.subs)

updatedBranch(c, key, in, br, gen) ==
    [branches |-> withBranch(c.branches, key, branchUpdated(br, in)),
     gen |-> gen]

updated(c, key, sub, gen) ==
    LET old == IF key \in DOMAIN c.branches THEN c.branches[key].subs ELSE {}
        newBranch == [subs |-> {sub} \cup old, iNode |-> Nil]
    IN [branches |-> withBranch(c.branches, key, newBranch), gen |-> gen]

\* A removal that keeps the branch it has emptied.
removedKeeping(c, key, sub, gen) ==
    IF key \in DOMAIN c.branches
    THEN [branches |-> withBranch(c.branches, key,
                                  branchRemoved(c.branches[key], sub)),
          gen |-> gen]
    ELSE [branches |-> c.branches, gen |-> gen]

removed(c, key, sub, gen) ==
    IF key \in DOMAIN c.branches
    THEN LET br == branchRemoved(c.branches[key], sub)
         IN IF br.subs = {} /\ br.iNode = Nil
            THEN [branches |-> withoutBranch(c.branches, key), gen |-> gen]
            ELSE [branches |-> withBranch(c.branches, key, br), gen |-> gen]
    ELSE [branches |-> c.branches, gen |-> gen]

\* Some branch of the map whatever the key: the lookup of a map that does not
\* tell its keys apart.
getBranchAnyKey(c, key) ==
    IF DOMAIN c.branches = {} THEN NilBranch
    ELSE c.branches[CHOOSE k \in DOMAIN c.branches : TRUE]

getBranch(c, key) ==
    IF key \in DOMAIN c.branches THEN c.branches[key] ELSE NilBranch

\* The three branches with the two wildcards taken for each other: the
\* lookup that would follow from confusing the single wildcard with the
\* zero-or-more wildcard.
getBranchesSwapped(c, key, cfg) ==
    <<getBranch(c, key), getBranch(c, cfg.ZeroOrMoreWildcard),
      getBranch(c, cfg.SingleWildcard)>>

getBranches(c, key, cfg) ==
    <<getBranch(c, key), getBranch(c, cfg.SingleWildcard),
      getBranch(c, cfg.ZeroOrMoreWildcard)>>

\* toContracted reads the root slot of the trie (c.root != parent).
toContracted(cn, rootSlot, parent) ==
    IF rootSlot # [desc |-> FALSE, id |-> parent] /\ DOMAIN cn.branches = {}
    THEN [make |-> "tomb"]
    ELSE [make |-> "cnode", cn |-> cn]

(***************************************************************************)
(* The main node a gcas is asked to install is described by a record and   *)
(* allocated when the CAS succeeds: until then it is private to its thread.*)
(***************************************************************************)
buildMain(H, n, prev) ==
    CASE n.make = "tomb" -> [H |-> H, m |-> tMain(prev)]
      [] n.make = "cnode" -> [H |-> H, m |-> cMain(n.cn, prev)]
      [] n.make = "inserted" ->
            LET r == inserted(H, n.cn, n.keys, n.sub, n.gen)
            IN [H |-> r.H, m |-> cMain(r.cn, prev)]
      [] n.make = "updatedBranch" ->
            \* nin := &iNode{main: &mainNode{cNode: newCNode(keys[1:], ...)}}
            LET r  == newCNode(H, Tail(n.keys), n.sub, n.gen)
                H1 == allocMain(r.H, cMain(r.cn, Nil))
                H2 == allocINode(H1, [main |-> Len(H1.M), gen |-> n.gen])
            IN [H |-> H2,
                m |-> cMain(updatedBranch(n.cn, n.keys[1], Len(H2.I),
                                          n.br, n.gen), prev)]

(***************************************************************************)
(* Threads.  A frame is a record [fn, pc, ...locals]; the head of stack[t] *)
(* is the running call.  A step yields a set of effects: the possible      *)
(* next values of the heap and of the thread.                              *)
(***************************************************************************)
Top(t) == Head(stack[t])

Base(t) ==
    [st |-> stack[t], rv |-> ret[t], sts |-> status[t], rs |-> restarts[t],
     I |-> inodes, M |-> mains, D |-> descs, T |-> tries, G |-> ngen,
     halt |-> halted, stray |-> stray]

goto(e, f) == [e EXCEPT !.st = <<f>> \o Tail(e.st)]
callFn(e, cont, callee) == [e EXCEPT !.st = <<callee, cont>> \o Tail(e.st)]
callFn2(e, cont, outer, inner) ==
    [e EXCEPT !.st = <<inner, outer, cont>> \o Tail(e.st)]
return(e, v) == [e EXCEPT !.st = Tail(e.st), !.rv = v]
panic(e, why) == [e EXCEPT !.st = <<>>, !.sts = "panic", !.rv = why]
stop(e, why) == [e EXCEPT !.halt = why]

nilDeref == "invalid memory address or nil pointer dereference"
invalidState == "Ctrie is in an invalid state"
readOnlyPanic == "Cannot modify read-only snapshot"

iref(i) == [desc |-> FALSE, id |-> i]
dref(d) == [desc |-> TRUE, id |-> d]

\* The keys of a branch map in a fixed order (Go ranges over a map in an
\* unspecified order; the order of the reads it makes is fixed here).
RECURSIVE seqOf(_)
seqOf(S) ==
    IF S = {} THEN <<>>
    ELSE LET x == CHOOSE y \in S : TRUE IN <<x>> \o seqOf(S \ {x})

iinsertFrame(c, i, keys, sub, parent, startGen) ==
    [fn |-> "iinsert", pc |-> "load", c |-> c, i |-> i, keys |-> keys,
     sub |-> sub, parent |-> parent, startGen |-> startGen, main |-> Nil]

iremoveFrame(c, i, keys, sub, parent, startGen) ==
    [fn |-> "iremove", pc |-> "load", c |-> c, i |-> i, keys |-> keys,
     sub |-> sub, parent |-> parent, startGen |-> startGen, main |-> Nil,
     ncn |-> Nil]

ilookupFrame(c, i, keys, parent, zeroOrMore, startGen) ==
    [fn |-> "ilookup", pc |-> "load", c |-> c, i |-> i, keys |-> keys,
     parent |-> parent, zeroOrMore |-> zeroOrMore, startGen |-> startGen,
     main |-> Nil, todo |-> <<>>, subs |-> EmptyBag, none |-> FALSE]

bLookupFrame(c, i, parent, main, b, keys, zeroOrMore, startGen) ==
    [fn |-> "bLookup", pc |-> "start", c |-> c, i |-> i, parent |-> parent,
     main |-> main, b |-> b, keys |-> keys, zeroOrMore |-> zeroOrMore,
     startGen |-> startGen, subscribers |-> EmptyBag]

gcasFrame(c, in, old, n) ==
    [fn |-> "gcas", pc |-> "cas", c |-> c, in |-> in, old |-> old, n |-> n]

gcasReadFrame(c, in) ==
    [fn |-> "gcasRead", pc |-> "load", c |-> c, in |-> in, m |-> Nil]

gcasCompleteFrame(c, i, m) ==
    [fn |-> "gcasComplete", pc |-> "top", c |-> c, i |-> i, m |-> m,
     prev |-> Nil, fnprev |-> Nil]

\* A root read that never aborts: it completes the descriptor it finds.
rdcssReadRootHelping(c, abort) ==
    [fn |-> "rdcssReadRoot", pc |-> "load", c |-> c, abort |-> FALSE]

rdcssReadRootFrame(c, abort) ==
    [fn |-> "rdcssReadRoot", pc |-> "load", c |-> c, abort |-> abort]

rdcssCompleteFrame(c, abort) ==
    [fn |-> "rdcssComplete", pc |-> "top", c |-> c, abort |-> abort, d |-> Nil]

rdcssRootFrame(c, old, expected, nv) ==
    [fn |-> "rdcssRoot", pc |-> "cas", c |-> c, old |-> old,
     expected |-> expected, nv |-> nv, d |-> Nil]

copyToGenFrame(c, gen) == [fn |-> "copyToGen", pc |-> "st", c |-> c, gen |-> gen]

\* A renewal that leaves the children where they are: no branch is copied.
renewedInPlace(c, cn, gen) ==
    [fn |-> "renewed", pc |-> "loop", c |-> c, gen |-> gen,
     branches |-> cn.branches, todo |-> <<>>]

renewedFrame(c, cn, gen) ==
    [fn |-> "renewed", pc |-> "loop", c |-> c, gen |-> gen,
     branches |-> cn.branches,
     todo |-> seqOf({k \in DOMAIN cn.branches : cn.branches[k].iNode # Nil})]

cleanFrame(i) == [fn |-> "clean", pc |-> "load", i |-> i, main |-> Nil]

\* prunable(br) reads br.iNode.main only for a branch that has no subscriber
\* and has an I-node; the other branches are decided without a shared read.
toCompressedFrame(cn) ==
    LET keep == {k \in DOMAIN cn.branches :
                    ~(cn.branches[k].subs = {} /\ cn.branches[k].iNode = Nil)}
    IN [fn |-> "toCompressed", pc |-> "loop", gen |-> cn.gen,
        branches |-> [k \in keep |-> cn.branches[k]],
        todo |-> seqOf({k \in keep : cn.branches[k].subs = {}})]

cleanParentFrame(c, parent, i, key, startGen) ==
    [fn |-> "cleanParent", pc |-> "load_i", c |-> c, parent |-> parent,
     i |-> i, key |-> key, startGen |-> startGen, main |-> Nil, pMain |-> Nil]

\* i.copyToGen(gen, ctrie) begins with gcasRead(i, ctrie).
callCopyToGen(e, cont, c, i, gen) ==
    callFn2(e, cont, copyToGenFrame(c, gen), gcasReadFrame(c, i))

\* A trie whose mutators never refuse: what assertReadWrite would be were
\* the readOnly flag ignored.
assertReadWriteIgnored(c) == FALSE

\* assertReadWrite: TRUE when the call panics, on a read-only trie.
assertReadWrite(c) == tries[c].readOnly

(***************************************************************************)
(* GCAS.                                                                   *)
(***************************************************************************)
\* gcas(in, old, n, ct): n.prev := old; CAS in.main old -> n; complete.
\* A plain store in place of the compare-and-swap: it never fails.
storeMain(in, old) == TRUE

\* atomic.CompareAndSwapPointer(&in.main, old, n): whether in.main is old.
casMain(in, old) == inodes[in].main = old

gcasStep(t, f, e) ==
    CASE f.pc = "cas" ->
            IF casMain(f.in, f.old)
            THEN LET b  == buildMain([I |-> inodes, M |-> mains], f.n, f.old)
                     H  == allocMain(b.H, b.m)
                     n  == Len(H.M)
                     e1 == [e EXCEPT !.M = H.M,
                                     !.I = [H.I EXCEPT ![f.in].main = n]]
                 IN {callFn(e1, [f EXCEPT !.pc = "chk", !.n = n],
                            gcasCompleteFrame(f.c, f.in, n))}
            ELSE {return(e, FALSE)}
      [] f.pc = "chk" -> {return(e, mains[f.n].prev = Nil)}

\* gcasRead(in, ctrie): load in.main, load m.prev, complete if pending.
gcasReadStep(t, f, e) ==
    CASE f.pc = "load" ->
            IF inodes[f.in].main = Nil
            THEN {panic(e, nilDeref)}
            ELSE {goto(e, [f EXCEPT !.pc = "prev", !.m = inodes[f.in].main])}
      [] f.pc = "prev" ->
            IF mains[f.m].prev = Nil
            THEN {return(e, f.m)}
            ELSE {goto(e, gcasCompleteFrame(f.c, f.in, f.m))}

\* A commit test that every GCAS passes, whatever the root's generation.
anyGeneration(root, i, c) == TRUE

\* root.gen == i.gen && !ctrie.readOnly: the commit test of gcasComplete.
sameGeneration(root, i, c) ==
    inodes[root].gen = inodes[i].gen /\ ~tries[c].readOnly

\* gcasComplete(i, m, ctrie).
gcasCompleteStep(t, f, e) ==
    CASE f.pc = "top" ->
            IF f.m = Nil
            THEN {return(e, Nil)}
            ELSE {callFn(e, [f EXCEPT !.pc = "root", !.prev = mains[f.m].prev],
                         rdcssReadRootFrame(f.c, TRUE))}
      [] f.pc = "root" ->
            LET root == ret[t] IN
            IF f.prev = Nil
            THEN {return(e, f.m)}
            ELSE IF mains[f.prev].kind = "f"
            THEN \* fn := prev.failed; the value to swap back is fn.prev
                 {goto(e, [f EXCEPT !.pc = "rollback",
                                    !.fnprev = mains[mains[f.prev].failed].prev])}
            ELSE IF sameGeneration(root, f.i, f.c)
            THEN \* commit: CAS m.prev prev -> nil
                 IF mains[f.m].prev = f.prev
                 THEN {return([e EXCEPT !.M[f.m].prev = Nil], f.m)}
                 ELSE {goto(e, [f EXCEPT !.pc = "top"])}
            ELSE \* CAS m.prev prev -> &mainNode{failed: prev}
                 IF mains[f.m].prev = f.prev
                 THEN LET M1 == Append(mains, failedMain(f.prev))
                      IN {goto([e EXCEPT !.M = [M1 EXCEPT ![f.m].prev = Len(M1)]],
                               [f EXCEPT !.pc = "reload"])}
                 ELSE {goto(e, [f EXCEPT !.pc = "reload"])}
      [] f.pc = "rollback" ->
            IF inodes[f.i].main = f.m
            THEN {return([e EXCEPT !.I[f.i].main = f.fnprev], f.fnprev)}
            ELSE {goto(e, [f EXCEPT !.pc = "reload"])}
      [] f.pc = "reload" ->
            {goto(e, [f EXCEPT !.pc = "top", !.m = inodes[f.i].main])}

(***************************************************************************)
(* RDCSS on the root slot.                                                 *)
(***************************************************************************)
tokenMisread == "rdcssDescriptor.token read from an iNode"
committedFault == "rdcssRoot dereferences the word loaded from desc.committed"

\* rdcssReadRoot(abort).  The root slot holds an *iNode or an
\* *rdcssDescriptor; the code tells them apart by reading desc.token, a byte
\* that lies outside an iNode: on an iNode the read is of memory the object
\* does not own, and it may compare equal to rdcssToken.
rdcssReadRootStep(t, f, e) ==
    LET r == tries[f.c].root IN
    IF r.desc
    THEN {goto(e, rdcssCompleteFrame(f.c, f.abort))}
    ELSE {return(e, r.id), stop(e, tokenMisread)}

\* The main node that a GCAS has put in the old root of descriptor d since
\* the gcasRead of rdcssComplete returned desc.expected, if any.  It is
\* recorded in the descriptor when the root is swapped to desc.nv; the field
\* is no field of rdcssDescriptor and no step reads it.
raced(d) ==
    IF inodes[descs[d].old].main = descs[d].expected THEN Nil
    ELSE inodes[descs[d].old].main

\* casRoot(ov, nv) panics on a read-only trie.
rdcssCompleteStep(t, f, e) ==
    CASE f.pc = "top" ->
            LET r == tries[f.c].root IN
            IF ~r.desc
            THEN {return(e, r.id), stop(e, tokenMisread)}
            ELSE IF f.abort
            THEN {goto(e, [f EXCEPT !.pc = "abort", !.d = r.id])}
            ELSE {callFn(e, [f EXCEPT !.pc = "chk", !.d = r.id],
                         gcasReadFrame(f.c, descs[r.id].old))}
      [] f.pc = "abort" ->
            IF assertReadWrite(f.c) THEN {panic(e, readOnlyPanic)}
            ELSE IF tries[f.c].root = dref(f.d)
            THEN {return([e EXCEPT !.T[f.c].root = iref(descs[f.d].old)],
                         descs[f.d].old)}
            ELSE {goto(e, [f EXCEPT !.pc = "top"])}
      [] f.pc = "chk" ->
            IF assertReadWrite(f.c) THEN {panic(e, readOnlyPanic)}
            ELSE IF ret[t] = descs[f.d].expected
            THEN IF tries[f.c].root = dref(f.d)
                 THEN {goto([e EXCEPT !.T[f.c].root = iref(descs[f.d].nv),
                                      !.D[f.d].raced = raced(f.d)],
                            [f EXCEPT !.pc = "committed"])}
                 ELSE {goto(e, [f EXCEPT !.pc = "top"])}
            ELSE IF tries[f.c].root = dref(f.d)
                 THEN {return([e EXCEPT !.T[f.c].root = iref(descs[f.d].old)],
                              descs[f.d].old)}
                 ELSE {goto(e, [f EXCEPT !.pc = "top"])}
      [] f.pc = "committed" ->
            {return([e EXCEPT !.D[f.d].committed = TRUE], descs[f.d].nv)}

\* rdcssRoot(old, expected, nv).  Its result is
\*   *(*bool)(atomic.LoadPointer((*unsafe.Pointer)(unsafe.Pointer(&desc.committed))))
\* which loads the word stored at &desc.committed (the flag, the token and
\* the padding after them) and dereferences that word as a *bool.  The word
\* is no address of an object of the program: the read faults, or it yields
\* whatever byte lies at that address, which is unrelated to the flag.
rdcssRootStep(t, f, e) ==
    CASE f.pc = "cas" ->
            IF assertReadWrite(f.c) THEN {panic(e, readOnlyPanic)}
            ELSE IF tries[f.c].root = iref(f.old)
            THEN LET D1 == Append(descs, [old |-> f.old, expected |-> f.expected,
                                          nv |-> f.nv, committed |-> FALSE,
                                          raced |-> Nil])
                     e1 == [e EXCEPT !.D = D1, !.T[f.c].root = dref(Len(D1))]
                 IN {callFn(e1, [f EXCEPT !.pc = "rd", !.d = Len(D1)],
                            rdcssCompleteFrame(f.c, FALSE))}
            ELSE {return(e, FALSE)}
      [] f.pc = "rd" ->
            {stop(e, committedFault),
             return(e, descs[f.d].committed),
             return([e EXCEPT !.stray = TRUE], ~descs[f.d].committed)}

\* copyToGen(gen, ctrie), after its gcasRead: a new I-node at gen.
copyToGenStep(t, f, e) ==
    LET I1 == Append(inodes, [main |-> ret[t], gen |-> f.gen])
    IN {return([e EXCEPT !.I = I1], Len(I1))}

\* cNode.renewed(gen, ctrie): every branch with an I-node gets a copy of it.
renewedStep(t, f, e) ==
    CASE f.pc = "loop" ->
            IF f.todo = <<>>
            THEN {return(e, [branches |-> f.branches, gen |-> f.gen])}
            ELSE {callCopyToGen(e, [f EXCEPT !.pc = "got"], f.c,
                                f.branches[Head(f.todo)].iNode, f.gen)}
      [] f.pc = "got" ->
            LET k  == Head(f.todo)
                bs == [f.branches EXCEPT
                          ![k] = [iNode |-> ret[t], subs |-> f.branches[k].subs]]
                f1 == [f EXCEPT !.branches = bs, !.todo = Tail(f.todo)]
            IN IF f1.todo = <<>>
               THEN {return(e, [branches |-> bs, gen |-> f.gen])}
               ELSE {callCopyToGen(e, f1, f.c,
                                   bs[Head(f1.todo)].iNode, f.gen)}

(***************************************************************************)
(* Insert.                                                                 *)
(***************************************************************************)
descriptorAsINode == "root slot loaded as an iNode while it holds a descriptor"

\* The keys of a public call: strings.Split, then, for Insert and Remove,
\* reduceZeroOrMoreWildcards.
mutatorKeys(topic) ==
    reduceZeroOrMoreWildcards(config, Split(topic, config.Delimiter))

InsertStep(t, f, e) ==
    CASE f.pc = "start" ->
            IF assertReadWrite(f.c) THEN {panic(e, readOnlyPanic)}
            ELSE LET r == tries[f.c].root IN
                 IF r.desc THEN {stop(e, descriptorAsINode)}
                 ELSE {callFn(e, [f EXCEPT !.pc = "ret"],
                              iinsertFrame(f.c, r.id, mutatorKeys(f.topic),
                                           f.sub, Nil, inodes[r.id].gen))}
      [] f.pc = "ret" ->
            IF ret[t] THEN {return(e, TRUE)}
            ELSE IF e.rs < MaxRestarts
                 THEN {goto([e EXCEPT !.rs = @ + 1], [f EXCEPT !.pc = "start"])}
                 ELSE {}

iinsertStep(t, f, e) ==
    LET igen == inodes[f.i].gen
        same == iinsertFrame(f.c, f.i, f.keys, f.sub, f.parent, f.startGen)
        gcasWith(n) == callFn(e, [f EXCEPT !.pc = "gret"],
                              gcasFrame(f.c, f.i, f.main, n))
    IN
    CASE f.pc = "load" ->
            LET m == inodes[f.i].main IN
            IF m = Nil THEN {panic(e, nilDeref)}
            ELSE IF mains[m].kind = "c" THEN
                LET cn == cNodeOf(mains[m])
                    br == getBranch(cn, f.keys[1])
                    g(n) == callFn(e, [f EXCEPT !.pc = "gret"],
                                   gcasFrame(f.c, f.i, m, n))
                    rn(pc, gen) == callFn(e, [f EXCEPT !.pc = pc, !.main = m],
                                          renewedFrame(f.c, cn, gen))
                IN IF br = NilBranch THEN
                       IF cn.gen # igen THEN {rn("A_rn", igen)}
                       ELSE {g([make |-> "inserted", cn |-> cn, keys |-> f.keys,
                                sub |-> f.sub, gen |-> igen])}
                   ELSE IF Len(f.keys) > 1 THEN
                       IF br.iNode # Nil THEN
                           IF f.startGen = inodes[br.iNode].gen
                           THEN {goto(e, iinsertFrame(f.c, br.iNode, Tail(f.keys),
                                                      f.sub, f.i, f.startGen))}
                           ELSE {rn("B_rn", f.startGen)}
                       ELSE IF cn.gen # igen THEN {rn("C_rn", igen)}
                       ELSE {g([make |-> "updatedBranch", cn |-> cn,
                                keys |-> f.keys, sub |-> f.sub, br |-> br,
                                gen |-> igen])}
                   ELSE IF f.sub \in br.subs THEN {return(e, TRUE)}
                   ELSE {g([make |-> "cnode",
                            cn |-> updated(cn, f.keys[1], f.sub, igen)])}
            ELSE IF mains[m].kind = "t"
            THEN {callFn(e, [f EXCEPT !.pc = "cleaned"], cleanFrame(f.parent))}
            ELSE {panic(e, invalidState)}
      [] f.pc = "A_rn" ->
            {gcasWith([make |-> "inserted", cn |-> ret[t], keys |-> f.keys,
                       sub |-> f.sub, gen |-> igen])}
      [] f.pc = "B_rn" ->
            {callFn(e, [f EXCEPT !.pc = "B_g"],
                    gcasFrame(f.c, f.i, f.main, [make |-> "cnode", cn |-> ret[t]]))}
      [] f.pc = "B_g" ->
            IF ret[t] THEN {goto(e, same)} ELSE {return(e, FALSE)}
      [] f.pc = "C_rn" ->
            {gcasWith([make |-> "updatedBranch", cn |-> ret[t], keys |-> f.keys,
                       sub |-> f.sub,
                       br |-> getBranch(cNodeOf(mains[f.main]), f.keys[1]),
                       gen |-> igen])}
      [] f.pc = "gret" -> {return(e, ret[t])}
      [] f.pc = "cleaned" -> {return(e, FALSE)}

(***************************************************************************)
(* Remove.                                                                 *)
(***************************************************************************)
RemoveStep(t, f, e) ==
    CASE f.pc = "start" ->
            IF assertReadWrite(f.c) THEN {panic(e, readOnlyPanic)}
            ELSE LET r == tries[f.c].root IN
                 IF r.desc THEN {stop(e, descriptorAsINode)}
                 ELSE {callFn(e, [f EXCEPT !.pc = "ret"],
                              iremoveFrame(f.c, r.id, mutatorKeys(f.topic),
                                           f.sub, Nil, inodes[r.id].gen))}
      [] f.pc = "ret" ->
            IF ret[t] THEN {return(e, TRUE)}
            ELSE IF e.rs < MaxRestarts
                 THEN {goto([e EXCEPT !.rs = @ + 1], [f EXCEPT !.pc = "start"])}
                 ELSE {}

iremoveStep(t, f, e) ==
    LET igen == inodes[f.i].gen
        same == iremoveFrame(f.c, f.i, f.keys, f.sub, f.parent, f.startGen)
    IN
    CASE f.pc = "load" ->
            LET m == inodes[f.i].main IN
            IF m = Nil THEN {panic(e, nilDeref)}
            ELSE IF mains[m].kind = "c" THEN
                LET cn == cNodeOf(mains[m])
                    br == getBranch(cn, f.keys[1])
                IN IF br = NilBranch THEN {return(e, TRUE)}
                   ELSE IF Len(f.keys) > 1 THEN
                       IF br.iNode # Nil THEN
                           IF tries[f.c].readOnly
                              \/ f.startGen = inodes[br.iNode].gen
                           THEN {goto(e, iremoveFrame(f.c, br.iNode, Tail(f.keys),
                                                      f.sub, f.i, f.startGen))}
                           ELSE {callFn(e, [f EXCEPT !.pc = "R_rn", !.main = m],
                                        renewedFrame(f.c, cn, f.startGen))}
                       ELSE {return(e, TRUE)}
                   ELSE IF f.sub \notin br.subs THEN {return(e, TRUE)}
                   ELSE {goto(e, [f EXCEPT !.pc = "contract", !.main = m,
                                   !.ncn = removed(cn, f.keys[1], f.sub, igen)])}
            ELSE IF mains[m].kind = "t"
            THEN {callFn(e, [f EXCEPT !.pc = "cleaned"], cleanFrame(f.parent))}
            ELSE {panic(e, invalidState)}
      [] f.pc = "R_rn" ->
            {callFn(e, [f EXCEPT !.pc = "R_g"],
                    gcasFrame(f.c, f.i, f.main, [make |-> "cnode", cn |-> ret[t]]))}
      [] f.pc = "R_g" ->
            \* a failed gcas falls out of the if, to "return true"
            IF ret[t] THEN {goto(e, same)} ELSE {return(e, TRUE)}
      [] f.pc = "contract" ->
            {callFn(e, [f EXCEPT !.pc = "g"],
                    gcasFrame(f.c, f.i, f.main,
                              toContracted(f.ncn, tries[f.c].root, f.i)))}
      [] f.pc = "g" ->
            IF ret[t]
            THEN IF f.parent # Nil
                 THEN {callFn(e, [f EXCEPT !.pc = "gr"], gcasReadFrame(f.c, f.i))}
                 ELSE {return(e, TRUE)}
            ELSE {return(e, FALSE)}
      [] f.pc = "gr" ->
            IF ret[t] = Nil THEN {panic(e, nilDeref)}
            ELSE IF mains[ret[t]].kind = "t"
            THEN {callFn(e, [f EXCEPT !.pc = "cp"],
                         cleanParentFrame(f.c, f.parent, f.i, f.keys[1],
                                          f.startGen))}
            ELSE {return(e, TRUE)}
      [] f.pc = "cp" -> {return(e, TRUE)}
      [] f.pc = "cleaned" -> {return(e, FALSE)}

(***************************************************************************)
(* clean, toCompressed, cleanParent.                                       *)
(***************************************************************************)
cleanStep(t, f, e) ==
    CASE f.pc = "load" ->
            IF f.i = Nil THEN {panic(e, nilDeref)}
            ELSE LET m == inodes[f.i].main IN
                 IF m = Nil THEN {panic(e, nilDeref)}
                 ELSE IF mains[m].kind = "c"
                 THEN {callFn(e, [f EXCEPT !.pc = "cas", !.main = m],
                              toCompressedFrame(cNodeOf(mains[m])))}
                 ELSE {return(e, Nil)}
      [] f.pc = "cas" ->
            \* atomic.CompareAndSwapPointer(mainPtr, main, toCompressed(...))
            IF inodes[f.i].main = f.main
            THEN LET M1 == Append(mains, cMain(ret[t], Nil))
                 IN {return([e EXCEPT !.M = M1, !.I[f.i].main = Len(M1)], Nil)}
            ELSE {return(e, Nil)}

\* toCompressed(cn), one prunable(br) that loads br.iNode.main per step.
toCompressedStep(t, f, e) ==
    IF f.todo = <<>>
    THEN {return(e, [branches |-> f.branches, gen |-> f.gen])}
    ELSE LET k == Head(f.todo)
             m == inodes[f.branches[k].iNode].main
         IN IF m = Nil THEN {panic(e, nilDeref)}
            ELSE IF mains[m].kind = "t"
            THEN {goto(e, [f EXCEPT !.todo = Tail(f.todo),
                                    !.branches = withoutBranch(f.branches, k)])}
            ELSE {goto(e, [f EXCEPT !.todo = Tail(f.todo)])}

cleanParentStep(t, f, e) ==
    CASE f.pc = "load_i" ->
            {goto(e, [f EXCEPT !.pc = "load_p", !.main = inodes[f.i].main])}
      [] f.pc = "load_p" ->
            LET pMain == inodes[f.parent].main IN
            IF pMain = Nil THEN {panic(e, nilDeref)}
            ELSE IF mains[pMain].kind = "c"
                    /\ f.key \in DOMAIN mains[pMain].branches
            THEN IF mains[pMain].branches[f.key].iNode # f.i
                 THEN {return(e, Nil)}
                 ELSE IF f.main = Nil THEN {panic(e, nilDeref)}
                 ELSE IF mains[f.main].kind = "t"
                 THEN {callFn(e, [f EXCEPT !.pc = "comp", !.pMain = pMain],
                              toCompressedFrame(cNodeOf(mains[pMain])))}
                 ELSE {return(e, Nil)}
            ELSE {return(e, Nil)}
      [] f.pc = "comp" ->
            {callFn(e, [f EXCEPT !.pc = "g"],
                    gcasFrame(f.c, f.parent, f.pMain,
                              toContracted(ret[t], tries[f.c].root, f.parent)))}
      [] f.pc = "g" ->
            IF ret[t] THEN {return(e, Nil)}
            ELSE {callFn(e, [f EXCEPT !.pc = "rr"], rdcssReadRootFrame(f.c, FALSE))}
      [] f.pc = "rr" ->
            IF inodes[ret[t]].gen = f.startGen
            THEN {goto(e, cleanParentFrame(f.c, f.parent, f.i, f.key, f.startGen))}
            ELSE {return(e, Nil)}

(***************************************************************************)
(* Lookup.                                                                 *)
(***************************************************************************)
\* The two results of ilookup and bLookup, ([]Subscriber, bool): a slice is
\* a bag of subscribers.
found(s) == [ok |-> TRUE, subs |-> s]
retry == [ok |-> FALSE, subs |-> EmptyBag]

\* ilookup's map of subscribers, keyed by ID, is the bag of its values: every
\* subscriber in it once.  A slice accumulated with append instead would hold
\* a subscriber once for every slice it came in.
appended(subs, s) == subs (+) s

\* ilookup adds the subscribers of a slice to its map: subs[sub.ID()] = sub.
merged(subs, s) == SetToBag(BagToSet(subs) \cup BagToSet(s))

\* The slice ilookup makes of its map: one element per key.
sliceOf(subs) == subs

\* append(a, b...).
append(a, b) == a (+) b

LookupStep(t, f, e) ==
    CASE f.pc = "start" ->
            LET r == tries[f.c].root IN
            IF r.desc THEN {stop(e, descriptorAsINode)}
            ELSE {callFn(e, [f EXCEPT !.pc = "ret"],
                         ilookupFrame(f.c, r.id, Split(f.topic, config.Delimiter),
                                      Nil, FALSE, inodes[r.id].gen))}
      [] f.pc = "ret" ->
            IF ret[t].ok THEN {return(e, ret[t].subs)}
            ELSE IF e.rs < MaxRestarts
                 THEN {goto([e EXCEPT !.rs = @ + 1], [f EXCEPT !.pc = "start"])}
                 ELSE {}

\* The part of ilookup after the branches already looked up: the next bLookup,
\* or the loopback, or the result.
ilookupNext(e, f) ==
    IF f.todo # <<>>
    THEN callFn(e, [f EXCEPT !.pc = "acc", !.todo = Tail(f.todo)],
                bLookupFrame(f.c, f.i, f.parent, f.main, Head(f.todo).b, f.keys,
                             Head(f.todo).zom, f.startGen))
    ELSE IF f.zeroOrMore /\ Len(f.keys) > 1 /\ f.none
    THEN goto(e, ilookupFrame(f.c, f.i, Tail(f.keys), f.parent, TRUE,
                              f.startGen))
    ELSE return(e, found(sliceOf(f.subs)))

ilookupStep(t, f, e) ==
    CASE f.pc = "load" ->
            LET m == inodes[f.i].main IN
            IF m = Nil THEN {panic(e, nilDeref)}
            ELSE IF mains[m].kind = "c" THEN
                LET bs == getBranches(cNodeOf(mains[m]), f.keys[1], config)
                    todo == (IF bs[1] = NilBranch THEN <<>>
                             ELSE <<[b |-> bs[1], zom |-> FALSE]>>)
                            \o (IF bs[2] = NilBranch THEN <<>>
                                ELSE <<[b |-> bs[2], zom |-> FALSE]>>)
                            \o (IF bs[3] = NilBranch THEN <<>>
                                ELSE <<[b |-> bs[3], zom |-> TRUE]>>)
                IN {ilookupNext(e, [f EXCEPT !.main = m, !.todo = todo,
                                             !.none = (todo = <<>>)])}
            ELSE IF mains[m].kind = "t"
            THEN {callFn(e, [f EXCEPT !.pc = "cleaned"], cleanFrame(f.parent))}
            ELSE {panic(e, invalidState)}
      [] f.pc = "acc" ->
            IF ~ret[t].ok THEN {return(e, retry)}
            ELSE {ilookupNext(e, [f EXCEPT !.subs = merged(@, ret[t].subs)])}
      [] f.pc = "cleaned" -> {return(e, retry)}

bLookupStep(t, f, e) ==
    LET terminal == IF f.b.iNode = Nil
                    THEN return(e, found(subscribers(f.b)))
                    ELSE goto(e, [f EXCEPT !.pc = "zom",
                                           !.subscribers = subscribers(f.b)])
    IN
    CASE f.pc = "start" ->
            IF Len(f.keys) > 1 THEN
                IF f.b.iNode = Nil THEN
                    IF f.zeroOrMore
                    THEN {goto(e, bLookupFrame(f.c, f.i, f.parent, f.main, f.b,
                                               Tail(f.keys), TRUE, f.startGen))}
                    ELSE {return(e, found(EmptyBag))}
                ELSE IF tries[f.c].readOnly
                        \/ f.startGen = inodes[f.b.iNode].gen
                THEN {goto(e, ilookupFrame(f.c, f.b.iNode, Tail(f.keys), f.i,
                                           f.zeroOrMore, f.startGen))}
                ELSE {callFn(e, [f EXCEPT !.pc = "rn"],
                             renewedFrame(f.c, cNodeOf(mains[f.main]),
                                          f.startGen))}
            ELSE {terminal}
      [] f.pc = "rn" ->
            {callFn(e, [f EXCEPT !.pc = "g"],
                    gcasFrame(f.c, f.i, f.main, [make |-> "cnode", cn |-> ret[t]]))}
      [] f.pc = "g" ->
            \* a failed gcas falls out of the if, to the subscribers of b
            IF ret[t]
            THEN {goto(e, ilookupFrame(f.c, f.i, f.keys, f.parent, f.zeroOrMore,
                                       f.startGen))}
            ELSE {terminal}
      [] f.pc = "zom" ->
            \* getZeroOrMoreWildcardSubscribers(b.iNode)
            LET m == inodes[f.b.iNode].main IN
            IF m = Nil THEN {panic(e, nilDeref)}
            ELSE LET br == IF mains[m].kind = "c"
                           THEN getBranch(cNodeOf(mains[m]),
                                          config.ZeroOrMoreWildcard)
                           ELSE NilBranch
                     s  == append(f.subscribers,
                                  IF br = NilBranch THEN EmptyBag
                                  ELSE subscribers(br))
                 IN IF f.zeroOrMore
                    THEN {goto(e, [f EXCEPT !.pc = "tail", !.subscribers = s])}
                    ELSE {return(e, found(s))}
      [] f.pc = "tail" ->
            \* getSubscribers(b.iNode, keys[0])
            LET m == inodes[f.b.iNode].main IN
            IF m = Nil THEN {panic(e, nilDeref)}
            ELSE LET bs == IF mains[m].kind = "c"
                           THEN getBranches(cNodeOf(mains[m]), f.keys[1], config)
                           ELSE <<NilBranch, NilBranch, NilBranch>>
                     got(b) == IF b = NilBranch THEN EmptyBag
                               ELSE subscribers(b)
                 IN {return(e, found(append(f.subscribers,
                                            append(got(bs[1]),
                                                   append(got(bs[2]),
                                                          got(bs[3]))))))}

(***************************************************************************)
(* Snapshot and ReadOnlySnapshot.                                          *)
(***************************************************************************)
\* &generation{}: generation is a zero-size struct, and Go leaves open whether
\* the addresses of two distinct zero-size variables are equal.  A new token
\* is therefore any token already handed out or a fresh one; it is never nil.
newGenerations(e) ==
    {[gen |-> g, G |-> IF g > e.G THEN g ELSE e.G] :
        g \in (1 .. e.G) \cup (IF e.G < MaxGen THEN {e.G + 1} ELSE {})}

SnapshotFrame(c) ==
    [fn |-> "Snapshot", pc |-> "readRoot", c |-> c, root |-> Nil, main |-> Nil]

ReadOnlySnapshotFrame(c) ==
    [fn |-> "ReadOnlySnapshot", pc |-> "start", c |-> c, root |-> Nil,
     main |-> Nil]

\* The loop body shared by Snapshot and ReadOnlySnapshot, up to rdcssRoot.
snapshotLoop(t, f, e) ==
    CASE f.pc = "readRoot" ->
            {callFn(e, [f EXCEPT !.pc = "main"], rdcssReadRootFrame(f.c, FALSE))}
      [] f.pc = "main" ->
            {callFn(e, [f EXCEPT !.pc = "copy", !.root = ret[t]],
                    gcasReadFrame(f.c, ret[t]))}
      [] f.pc = "copy" ->
            {callCopyToGen([e EXCEPT !.G = n.G],
                           [f EXCEPT !.pc = "rdcss", !.main = ret[t]],
                           f.c, f.root, n.gen) : n \in newGenerations(e)}
      [] f.pc = "rdcss" ->
            {callFn(e, [f EXCEPT !.pc = "swapped"],
                    rdcssRootFrame(f.c, f.root, f.main, ret[t]))}

SnapshotStep(t, f, e) ==
    CASE f.pc \in {"readRoot", "main", "copy", "rdcss"} -> snapshotLoop(t, f, e)
      [] f.pc = "swapped" ->
            IF ret[t]
            THEN {callCopyToGen([e EXCEPT !.G = n.G], [f EXCEPT !.pc = "init"],
                                f.c, f.root, n.gen) : n \in newGenerations(e)}
            ELSE IF e.rs < MaxRounds
            THEN {goto([e EXCEPT !.rs = @ + 1], [f EXCEPT !.pc = "readRoot"])}
            ELSE {}
      [] f.pc = "init" ->
            \* initCtrie(c.config, <the copy>, c.readOnly)
            LET T1 == Append(tries, [root |-> iref(ret[t]),
                                     readOnly |-> tries[f.c].readOnly])
            IN {return([e EXCEPT !.T = T1], Len(T1))}

\* A trie that is never taken for read-only: what the test of the flag would
\* be were every trie writable.
readOnlyUnseen(c) == FALSE

\* c.readOnly, as ReadOnlySnapshot tests it.
readOnly(c) == tries[c].readOnly

ReadOnlySnapshotStep(t, f, e) ==
    CASE f.pc = "start" ->
            IF readOnly(f.c) THEN {return(e, f.c)}
            ELSE {goto(e, [f EXCEPT !.pc = "readRoot"])}
      [] f.pc \in {"readRoot", "main", "copy", "rdcss"} -> snapshotLoop(t, f, e)
      [] f.pc = "swapped" ->
            IF ret[t]
            THEN \* initCtrie(c.config, root, true)
                 LET T1 == Append(tries, [root |-> iref(f.root),
                                          readOnly |-> TRUE])
                 IN {return([e EXCEPT !.T = T1], Len(T1))}
            ELSE IF e.rs < MaxRounds
            THEN {goto([e EXCEPT !.rs = @ + 1], [f EXCEPT !.pc = "readRoot"])}
            ELSE {}

\* newCtrie: root := &iNode{main: &mainNode{cNode: &cNode{}}}, a nil gen.
newCtrie ==
    [I |-> <<[main |-> 1, gen |-> Nil]>>,
     M |-> <<cMain([branches |-> emptyBranches, gen |-> Nil], Nil)>>,
     T |-> <<[root |-> iref(1), readOnly |-> FALSE]>>]

(***************************************************************************)
(* What a trie holds.  The committed main node of an I-node is its main    *)
(* node unless a GCAS on it is pending or failed (prev is not nil): then   *)
(* it is still the node the GCAS replaced.  The committed root is the root *)
(* slot, or the old root while an RDCSS descriptor is in the slot.         *)
(***************************************************************************)
Threads == {1, 2}

committedMain(I, M, i) ==
    LET m == I[i].main IN
    IF m = Nil THEN Nil
    ELSE IF M[m].prev = Nil THEN m
    ELSE IF M[M[m].prev].kind = "f" THEN M[M[m].prev].failed
    ELSE M[m].prev

committedRoot(T, D, h) ==
    IF T[h].root.desc THEN D[T[h].root.id].old ELSE T[h].root.id

\* The (pattern, subscriber) pairs below I-node i, the pattern as its words.
RECURSIVE registeredBelow(_, _, _, _)
registeredBelow(I, M, i, prefix) ==
    LET m == committedMain(I, M, i) IN
    IF m = Nil THEN {}
    ELSE IF M[m].kind # "c" THEN {}
    ELSE UNION {
            {<<Append(prefix, k), s>> : s \in M[m].branches[k].subs}
            \cup (IF M[m].branches[k].iNode = Nil THEN {}
                  ELSE registeredBelow(I, M, M[m].branches[k].iNode,
                                       Append(prefix, k)))
            : k \in DOMAIN M[m].branches}

registeredIn(I, M, T, D, h) == registeredBelow(I, M, committedRoot(T, D, h), <<>>)

Registered(h) == registeredIn(inodes, mains, tries, descs, h)

\* The trie below I-node i up to the identity of its nodes.
RECURSIVE shapeBelow(_, _, _)
shapeBelow(I, M, i) ==
    LET m == I[i].main IN
    IF m = Nil THEN [gen |-> I[i].gen, kind |-> "nil", branches |-> <<>>]
    ELSE [gen |-> I[i].gen, kind |-> M[m].kind,
          branches |->
             [k \in DOMAIN M[m].branches |->
                 [subs |-> M[m].branches[k].subs,
                  child |-> IF M[m].branches[k].iNode = Nil THEN <<>>
                            ELSE <<shapeBelow(I, M, M[m].branches[k].iNode)>>]]]

(***************************************************************************)
(* Public calls.  script[t] lists the calls thread t makes, each drawn     *)
(* from a set; a call on a handle waits until the handle exists.           *)
(***************************************************************************)
Mutators == {"Insert", "Remove"}
Snapshots == {"Snapshot", "ReadOnlySnapshot"}

NoCall ==
    [op |-> "none", h |-> Nil, topic |-> <<>>, sub |-> "", res |-> {},
     prev |-> <<>>, quiet |-> FALSE, shapes |-> <<>>, seen |-> {},
     got |-> {}, prior |-> <<>>]

callFrame(o) ==
    CASE o.op = "Insert" ->
            [fn |-> "Insert", pc |-> "start", c |-> o.h, topic |-> o.topic,
             sub |-> o.sub]
      [] o.op = "Remove" ->
            [fn |-> "Remove", pc |-> "start", c |-> o.h, topic |-> o.topic,
             sub |-> o.sub]
      [] o.op = "Lookup" ->
            [fn |-> "Lookup", pc |-> "start", c |-> o.h, topic |-> o.topic]
      [] o.op = "Snapshot" -> SnapshotFrame(o.h)
      [] o.op = "ReadOnlySnapshot" -> ReadOnlySnapshotFrame(o.h)

Running(t, fn) ==
    /\ halted = ""
    /\ status[t] = "run"
    /\ stack[t] # <<>>
    /\ Top(t).fn = fn

mutating(u, h) ==
    status[u] = "run" /\ cur[u].op \in Mutators /\ cur[u].h = h

Call(t) ==
    /\ halted = ""
    /\ status[t] # "run"
    /\ script[t] # <<>>
    /\ \E o \in Head(script[t]) :
        /\ o.h <= Len(tries)
        /\ o.after <= Len(tries)
        /\ stack' = [stack EXCEPT ![t] = <<callFrame(o)>>]
        /\ status' = [status EXCEPT ![t] = "run"]
        /\ restarts' = [restarts EXCEPT ![t] = 0]
        /\ cur' = [u \in Threads |->
                     IF u = t
                     THEN [NoCall EXCEPT
                             !.op = o.op, !.h = o.h, !.topic = o.topic,
                             !.sub = o.sub,
                             !.quiet = \A v \in Threads \ {t} : ~mutating(v, o.h),
                             !.seen = IF o.op \in Snapshots
                                      THEN {Registered(o.h)} ELSE {},
                             !.prior = IF status[t] = "done"
                                       THEN <<[op |-> cur[t].op, h |-> cur[t].h,
                                               topic |-> cur[t].topic,
                                               sub |-> cur[t].sub]>>
                                       ELSE <<>>]
                     ELSE IF o.op \in Mutators /\ cur[u].h = o.h
                     THEN [cur[u] EXCEPT !.quiet = FALSE]
                     ELSE cur[u]]
        /\ look' = IF o.op \in Mutators
                   THEN {l \in look : l.h # o.h} ELSE look
        /\ atCall' = [atCall EXCEPT
                        ![t] = [h \in 1 .. Len(tries) |-> Registered(h)]]
        /\ hist' = [hist EXCEPT
                      ![t] = Append(@, [op |-> o.op, h |-> o.h, topic |-> o.topic,
                                        sub |-> o.sub, st |-> "run", res |-> {},
                                        dup |-> FALSE,
                                        was |-> o.op \in Mutators
                                                /\ <<mutatorKeys(o.topic), o.sub>>
                                                      \in Registered(o.h)])]
    /\ script' = [script EXCEPT ![t] = Tail(@)]
    /\ UNCHANGED <<inodes, mains, descs, tries, ngen, ret, reg, halted, stray>>

\* The effect e of one step of thread t, and the bookkeeping of the call.
Apply(t, e) ==
    LET pan  == e.sts = "panic"
        done == e.st = <<>> /\ ~pan
        c    == cur[t]
        res  == IF ~done THEN {}
                ELSE IF c.op = "Lookup" THEN BagToSet(e.rv)
                ELSE IF c.op \in Snapshots THEN {e.rv}
                ELSE {}
        old  == {l \in look : l.h = c.h /\ l.topic = c.topic}
        keys == mutatorKeys(c.topic)
    IN
    /\ inodes' = e.I
    /\ mains' = e.M
    /\ descs' = e.D
    /\ tries' = e.T
    /\ ngen' = e.G
    /\ halted' = e.halt
    /\ stray' = e.stray
    /\ stack' = [stack EXCEPT ![t] = e.st]
    /\ ret' = [ret EXCEPT ![t] = e.rv]
    /\ restarts' = [restarts EXCEPT ![t] = e.rs]
    /\ status' = [status EXCEPT
                    ![t] = IF pan THEN "panic" ELSE IF done THEN "done" ELSE "run"]
    /\ cur' = [u \in Threads |->
                 LET c0 == cur[u]
                     c1 == IF status[u] = "run" /\ c0.op \in Snapshots
                           THEN [c0 EXCEPT
                                   !.seen = @ \cup {registeredIn(e.I, e.M, e.T,
                                                                 e.D, c0.h)}]
                           ELSE c0
                 IN IF u # t THEN c1
                    ELSE [c1 EXCEPT
                            !.res = res,
                            !.got = IF done /\ c.op \in Snapshots
                                    THEN registeredIn(e.I, e.M, e.T, e.D, e.rv)
                                    ELSE {},
                            !.prev = IF done /\ c.op = "Lookup" /\ old # {}
                                     THEN <<(CHOOSE l \in old : TRUE).res>>
                                     ELSE <<>>,
                            !.shapes = IF e.rs > restarts[t]
                                          /\ c.op \notin Snapshots
                                       THEN Append(@, shapeBelow(e.I, e.M,
                                                committedRoot(e.T, e.D, c.h)))
                                       ELSE @]]
    /\ look' = IF done /\ c.op = "Lookup" /\ c.quiet
               THEN (look \ old) \cup {[h |-> c.h, topic |-> c.topic, res |-> res]}
               ELSE look
    /\ reg' = IF ~done THEN reg
              ELSE IF c.op = "Insert"
              THEN [reg EXCEPT ![c.h] = @ \cup {<<keys, c.sub>>}]
              ELSE IF c.op = "Remove"
              THEN [reg EXCEPT ![c.h] = @ \ {<<keys, c.sub>>}]
              ELSE IF Len(e.T) > Len(reg) THEN Append(reg, reg[c.h])
              ELSE reg
    /\ hist' = IF ~(done \/ pan) THEN hist
               ELSE [hist EXCEPT
                       ![t][Len(hist[t])] =
                           [@ EXCEPT
                              !.st = IF pan THEN "panic" ELSE "done",
                              !.res = res,
                              !.dup = done /\ c.op = "Lookup"
                                      /\ \E x \in BagToSet(e.rv) :
                                            CopiesIn(x, e.rv) > 1]]
    /\ UNCHANGED <<script, atCall>>

(***************************************************************************)
(* One action per function of the program: a step of the thread whose     *)
(* running call is in that function.                                       *)
(***************************************************************************)
Insert(t) ==
    Running(t, "Insert") /\ \E e \in InsertStep(t, Top(t), Base(t)) : Apply(t, e)
Remove(t) ==
    Running(t, "Remove") /\ \E e \in RemoveStep(t, Top(t), Base(t)) : Apply(t, e)
Lookup(t) ==
    Running(t, "Lookup") /\ \E e \in LookupStep(t, Top(t), Base(t)) : Apply(t, e)
Snapshot(t) ==
    Running(t, "Snapshot")
    /\ \E e \in SnapshotStep(t, Top(t), Base(t)) : Apply(t, e)
ReadOnlySnapshot(t) ==
    Running(t, "ReadOnlySnapshot")
    /\ \E e \in ReadOnlySnapshotStep(t, Top(t), Base(t)) : Apply(t, e)
iinsert(t) ==
    Running(t, "iinsert") /\ \E e \in iinsertStep(t, Top(t), Base(t)) : Apply(t, e)
iremove(t) ==
    Running(t, "iremove") /\ \E e \in iremoveStep(t, Top(t), Base(t)) : Apply(t, e)
ilookup(t) ==
    Running(t, "ilookup") /\ \E e \in ilookupStep(t, Top(t), Base(t)) : Apply(t, e)
bLookup(t) ==
    Running(t, "bLookup") /\ \E e \in bLookupStep(t, Top(t), Base(t)) : Apply(t, e)
clean(t) ==
    Running(t, "clean") /\ \E e \in cleanStep(t, Top(t), Base(t)) : Apply(t, e)
cleanParent(t) ==
    Running(t, "cleanParent")
    /\ \E e \in cleanParentStep(t, Top(t), Base(t)) : Apply(t, e)
toCompressed(t) ==
    Running(t, "toCompressed")
    /\ \E e \in toCompressedStep(t, Top(t), Base(t)) : Apply(t, e)
gcas(t) ==
    Running(t, "gcas") /\ \E e \in gcasStep(t, Top(t), Base(t)) : Apply(t, e)
gcasRead(t) ==
    Running(t, "gcasRead") /\ \E e \in gcasReadStep(t, Top(t), Base(t)) : Apply(t, e)
gcasComplete(t) ==
    Running(t, "gcasComplete")
    /\ \E e \in gcasCompleteStep(t, Top(t), Base(t)) : Apply(t, e)
rdcssReadRoot(t) ==
    Running(t, "rdcssReadRoot")
    /\ \E e \in rdcssReadRootStep(t, Top(t), Base(t)) : Apply(t, e)
rdcssRoot(t) ==
    Running(t, "rdcssRoot")
    /\ \E e \in rdcssRootStep(t, Top(t), Base(t)) : Apply(t, e)
rdcssComplete(t) ==
    Running(t, "rdcssComplete")
    /\ \E e \in rdcssCompleteStep(t, Top(t), Base(t)) : Apply(t, e)
copyToGen(t) ==
    Running(t, "copyToGen")
    /\ \E e \in copyToGenStep(t, Top(t), Base(t)) : Apply(t, e)
renewed(t) ==
    Running(t, "renewed") /\ \E e \in renewedStep(t, Top(t), Base(t)) : Apply(t, e)

(***************************************************************************)
(* Scenarios.                                                              *)
(***************************************************************************)
Words == {"a", "b", amqpSingleWildcard, amqpZeroOrMoreWildcard}
Literals == {"a", "b"}

SeqsUpTo(S, n) == UNION {[1 .. k -> S] : k \in 1 .. n}

\* The topic string of a sequence of words: the words joined by the delimiter.
RECURSIVE Join(_)
Join(ws) ==
    IF Len(ws) = 1 THEN <<ws[1]>>
    ELSE <<ws[1], amqpDelimiter>> \o Join(Tail(ws))

Op(op, h, ws, sub, after) ==
    [op |-> op, h |-> h, topic |-> Join(ws), sub |-> sub, after |-> after]

SnapOp(op, h, after) ==
    [op |-> op, h |-> h, topic |-> <<>>, sub |-> "", after |-> after]

InitTrie ==
    /\ inodes = newCtrie.I
    /\ mains = newCtrie.M
    /\ descs = <<>>
    /\ tries = newCtrie.T
    /\ ngen = 0
    /\ stack = [t \in Threads |-> <<>>]
    /\ ret = [t \in Threads |-> Nil]
    /\ status = [t \in Threads |-> "idle"]
    /\ cur = [t \in Threads |-> NoCall]
    /\ restarts = [t \in Threads |-> 0]
    /\ atCall = [t \in Threads |-> <<>>]
    /\ look = {}
    /\ reg = <<{}>>
    /\ halted = ""
    /\ stray = FALSE
    /\ hist = [t \in Threads |-> <<>>]

\* A single thread, no snapshot: two Inserts and a Lookup over every pattern
\* and topic of the bounds, or two Inserts, a Remove and one more call.
WildcardScript ==
    << {Op("Insert", 1, p, "s1", 0) : p \in {<<"a">>, <<"a", "b">>, <<"#">>}},
       {Op("Insert", 1, p, "s2", 0) : p \in SeqsUpTo(Words, MaxLen)},
       {Op("Lookup", 1, q, "", 0) : q \in SeqsUpTo(Literals, MaxLen)} >>

RemoveScript ==
    << {Op("Insert", 1, p, "s1", 0) : p \in {<<"a">>, <<"a", "b">>, <<"a", "#">>}},
       {Op("Insert", 1, p, "s2", 0) : p \in {<<"a">>, <<"a", "b">>, <<"b">>}},
       {Op("Remove", 1, p, s, 0) :
           p \in {<<"a">>, <<"a", "b">>}, s \in {"s1", "s2"}},
       {Op("Lookup", 1, q, "", 0) : q \in {<<"a">>, <<"a", "b">>}}
       \cup {Op("Insert", 1, <<"a", "b">>, "s1", 0),
             Op("Remove", 1, <<"a", "b">>, "s1", 0)} >>

InitSeq ==
    /\ InitTrie
    /\ \E s \in {WildcardScript, RemoveScript} :
          script = [t \in Threads |-> IF t = 1 THEN s ELSE <<>>]

NextSeq ==
    \/ \E t \in Threads : Call(t)
    \/ \E t \in Threads : Insert(t)
    \/ \E t \in Threads : Remove(t)
    \/ \E t \in Threads : Lookup(t)
    \/ \E t \in Threads : iinsert(t)
    \/ \E t \in Threads : iremove(t)
    \/ \E t \in Threads : ilookup(t)
    \/ \E t \in Threads : bLookup(t)
    \/ \E t \in Threads : clean(t)
    \/ \E t \in Threads : cleanParent(t)
    \/ \E t \in Threads : toCompressed(t)
    \/ \E t \in Threads : gcas(t)
    \/ \E t \in Threads : gcasRead(t)
    \/ \E t \in Threads : gcasComplete(t)
    \/ \E t \in Threads : rdcssReadRoot(t)

SpecSeq == InitSeq /\ [][NextSeq]_vars

(***************************************************************************)
(* Claims about a single thread without snapshots (SpecSeq).               *)
(***************************************************************************)
\* Whether pattern p (its words) matches the literal topic q (its words):
\* the single wildcard stands for exactly one word, the zero-or-more wildcard
\* for any run of words, the empty run included.
RECURSIVE Matches(_, _)
Matches(p, q) ==
    IF p = <<>> THEN q = <<>>
    ELSE IF Head(p) = amqpZeroOrMoreWildcard
    THEN Matches(Tail(p), q) \/ (q # <<>> /\ Matches(p, Tail(q)))
    ELSE /\ q # <<>>
         /\ Head(p) = amqpSingleWildcard \/ Head(p) = Head(q)
         /\ Matches(Tail(p), Tail(q))

Returned(t, op) == status[t] = "done" /\ cur[t].op = op

\* C1: Insert, Remove and Lookup return after finitely many restarts when no
\* other thread runs.  A call that runs alone is deterministic, so it returns
\* only if no two of its restarts find the trie in the same shape.
C1_CallsReturn ==
    \A t \in Threads :
        \A j, k \in 1 .. Len(cur[t].shapes) :
            j < k => cur[t].shapes[j] # cur[t].shapes[k]

\* C2: when Insert(t, s) has returned, every pair registered when it was called
\* is still registered, and so is (reduce(t), s).
C2_InsertKeepsOthers ==
    \A t \in Threads :
        Returned(t, "Insert") =>
            atCall[t][cur[t].h] \cup {<<mutatorKeys(cur[t].topic), cur[t].sub>>}
                \subseteq Registered(cur[t].h)

\* C3: a Lookup(q) that follows Insert(p, s) on the same trie returns s
\* whenever p matches q.
C3_WildcardCoverage ==
    \A t \in Threads :
        (/\ Returned(t, "Lookup")
         /\ cur[t].prior # <<>>
         /\ cur[t].prior[1].op = "Insert"
         /\ cur[t].prior[1].h = cur[t].h
         /\ Matches(mutatorKeys(cur[t].prior[1].topic),
                    Split(cur[t].topic, config.Delimiter)))
        => cur[t].prior[1].sub \in cur[t].res

\* C4: Lookup(q) returns only subscribers registered at a pattern that
\* matches q.
C4_LookupSound ==
    \A t \in Threads :
        Returned(t, "Lookup") =>
            \A s \in cur[t].res :
                \E r \in reg[cur[t].h] :
                    /\ r[2] = s
                    /\ Matches(r[1], Split(cur[t].topic, config.Delimiter))

\* A Lookup that returned a subscriber while another subscriber, registered
\* at a pattern of literal words and single wildcards of another length, was
\* left out.
C4_Witness ==
    \E t \in Threads :
        /\ Returned(t, "Lookup")
        /\ cur[t].res # {}
        /\ \E r \in reg[cur[t].h] :
              /\ r[2] \notin cur[t].res
              /\ amqpZeroOrMoreWildcard \notin {r[1][n] : n \in 1 .. Len(r[1])}
              /\ Len(r[1]) # Len(Split(cur[t].topic, config.Delimiter))

(***************************************************************************)
(* The full next-state relation, and a single thread that takes snapshots. *)
(***************************************************************************)
Next ==
    \/ \E t \in Threads : Call(t)
    \/ \E t \in Threads : Insert(t)
    \/ \E t \in Threads : Remove(t)
    \/ \E t \in Threads : Lookup(t)
    \/ \E t \in Threads : Snapshot(t)
    \/ \E t \in Threads : ReadOnlySnapshot(t)
    \/ \E t \in Threads : iinsert(t)
    \/ \E t \in Threads : iremove(t)
    \/ \E t \in Threads : ilookup(t)
    \/ \E t \in Threads : bLookup(t)
    \/ \E t \in Threads : clean(t)
    \/ \E t \in Threads : cleanParent(t)
    \/ \E t \in Threads : toCompressed(t)
    \/ \E t \in Threads : gcas(t)
    \/ \E t \in Threads : gcasRead(t)
    \/ \E t \in Threads : gcasComplete(t)
    \/ \E t \in Threads : rdcssReadRoot(t)
    \/ \E t \in Threads : rdcssRoot(t)
    \/ \E t \in Threads : rdcssComplete(t)
    \/ \E t \in Threads : copyToGen(t)
    \/ \E t \in Threads : renewed(t)

SnapTopics == {<<"a", "b">>, <<"a", "c">>}

SnapScript ==
    << {Op("Insert", 1, <<"a", "b">>, "s1", 0)},
       {SnapOp("Snapshot", 1, 0)},
       {Op("Insert", 2, <<"a", "c">>, "s2", 0),
        Op("Remove", 2, <<"a", "b">>, "s1", 0)},
       {SnapOp("Snapshot", 2, 0), SnapOp("ReadOnlySnapshot", 2, 0)},
       {Op("Lookup", h, q, "", 0) : h \in {2, 3}, q \in SnapTopics},
       {Op("Insert", h, <<"a", "b">>, "s3", 0) : h \in {2, 3}}
       \cup {Op("Remove", h, <<"a", "b">>, "s1", 0) : h \in {2, 3}},
       {Op("Lookup", h, q, "", 0) : h \in {2, 3}, q \in SnapTopics} >>

InitSnap ==
    /\ InitTrie
    /\ script = [t \in Threads |-> IF t = 1 THEN SnapScript ELSE <<>>]

SpecSnap == InitSnap /\ [][Next]_vars

C6_ReadOnlyRefusal ==
    \A t \in Threads :
        (status[t] # "run" /\ cur[t].op \in Mutators /\ tries[cur[t].h].readOnly)
        => /\ status[t] = "panic"
           /\ ret[t] = readOnlyPanic
           /\ \A h \in DOMAIN atCall[t] : Registered(h) = atCall[t][h]

\* An Insert or Remove refused on a read-only snapshot that holds a
\* subscription, taken from a trie that holds one.
C6_Witness ==
    \E t \in Threads :
        /\ status[t] = "panic"
        /\ cur[t].op \in Mutators
        /\ tries[cur[t].h].readOnly
        /\ Registered(cur[t].h) # {}
        /\ Registered(1) # {}

(***************************************************************************)
(* Two threads.                                                            *)
(***************************************************************************)
\* Thread 1 takes two snapshots of trie 1; thread 2, once the first is
\* taken, inserts into trie 1 and looks the topic up.
InsertDuringSnapshot ==
    [t \in Threads |->
        IF t = 1
        THEN << {SnapOp("Snapshot", 1, 0)},
                {SnapOp("Snapshot", 1, 0), SnapOp("ReadOnlySnapshot", 1, 0)} >>
        ELSE << {Op("Insert", 1, <<"a">>, "s1", 2)},
                {Op("Lookup", 1, <<"a">>, "", 0)} >>]

\* Thread 1 inserts a two-word pattern, takes a snapshot, removes the
\* pattern and looks it up; thread 2 inserts another pattern after the
\* snapshot.
RemoveDuringInsert ==
    [t \in Threads |->
        IF t = 1
        THEN << {Op("Insert", 1, <<"a", "b">>, "s1", 0)},
                {SnapOp("Snapshot", 1, 0)},
                {Op("Remove", 1, <<"a", "b">>, "s1", 0)},
                {Op("Lookup", 1, <<"a", "b">>, "", 0)} >>
        ELSE << {Op("Insert", 1, <<"c">>, "s2", 2)} >>]

\* Thread 1 takes a read-only snapshot and looks a topic up in it twice;
\* thread 2 inserts the topic into the original.
LookupDuringInsert ==
    [t \in Threads |->
        IF t = 1
        THEN << {SnapOp("ReadOnlySnapshot", 1, 0)},
                {Op("Lookup", 2, <<"a">>, "", 0)},
                {Op("Lookup", 2, <<"a">>, "", 0)} >>
        ELSE << {Op("Insert", 1, <<"a">>, "s1", 0)} >>]

Init ==
    /\ InitTrie
    /\ script \in {InsertDuringSnapshot, RemoveDuringInsert, LookupDuringInsert}

Spec == Init /\ [][Next]_vars

thePair(c) == <<mutatorKeys(c.topic), c.sub>>

\* Some thread's current or last call is op on trie h for the pair pr.
Calls(op, h, pr) ==
    \E u \in Threads :
        cur[u].op = op /\ cur[u].h = h /\ thePair(cur[u]) = pr

\* C7: a Lookup(t) on T that a thread makes right after its Insert(t, s) on T
\* returned contains s, unless a Remove(t, s) on T was called.
C7_InsertTakesEffect ==
    \A t \in Threads :
        (/\ Returned(t, "Lookup")
         /\ cur[t].prior # <<>>
         /\ cur[t].prior[1].op = "Insert"
         /\ cur[t].prior[1].h = cur[t].h
         /\ cur[t].prior[1].topic = cur[t].topic
         /\ thePair(cur[t].prior[1]) \in reg[cur[t].h]
         /\ ~Calls("Remove", cur[t].h, thePair(cur[t].prior[1]))
         /\ ~stray)
        => cur[t].prior[1].sub \in cur[t].res

\* C8: a Lookup(t) on T that a thread makes right after its Remove(t, s) on T
\* returned does not contain s, unless an Insert(t, s) on T was called.
C8_RemoveTakesEffect ==
    \A t \in Threads :
        (/\ Returned(t, "Lookup")
         /\ cur[t].prior # <<>>
         /\ cur[t].prior[1].op = "Remove"
         /\ cur[t].prior[1].h = cur[t].h
         /\ cur[t].prior[1].topic = cur[t].topic
         /\ thePair(cur[t].prior[1]) \notin reg[cur[t].h]
         /\ ~Calls("Insert", cur[t].h, thePair(cur[t].prior[1]))
         /\ ~stray)
        => cur[t].prior[1].sub \notin cur[t].res

\* C9: the trie returned by Snapshot or ReadOnlySnapshot holds, when the call
\* returns, what the original held at some instant of the call.
C9_SnapshotPointInTime ==
    \A t \in Threads :
        ((Returned(t, "Snapshot") \/ Returned(t, "ReadOnlySnapshot")) /\ ~stray)
        => cur[t].got \in cur[t].seen

\* C10: a Lookup on a read-only snapshot returns what the last Lookup of the
\* same topic on it returned, and does not panic after one has returned.
C10_ReadOnlyStable ==
    \A t \in Threads :
        /\ (Returned(t, "Lookup") /\ cur[t].quiet /\ cur[t].prev # <<>>
            /\ tries[cur[t].h].readOnly /\ ~stray)
           => cur[t].res = cur[t].prev[1]
        /\ (status[t] = "panic" /\ cur[t].op = "Lookup"
            /\ tries[cur[t].h].readOnly /\ ~stray)
           => ~\E l \in look : l.h = cur[t].h /\ l.topic = cur[t].topic


(***************************************************************************)
(* Two threads on one trie, no snapshot.                                   *)
(***************************************************************************)
\* Each thread inserts, removes and looks up single-word topics with its own
\* subscriber: the two threads meet in the branch map of the root, on the
\* same key or on two keys.
DistinctKeys ==
    [t \in Threads |->
        IF t = 1
        THEN << {Op("Insert", 1, <<"a">>, "s1", 0)},
                {Op("Remove", 1, <<"a">>, "s1", 0),
                 Op("Insert", 1, <<"b">>, "s1", 0)},
                {Op("Lookup", 1, q, "", 0) : q \in {<<"a">>, <<"b">>}} >>
        ELSE << {Op("Insert", 1, p, "s2", 0) : p \in {<<"a">>, <<"b">>}},
                {Op("Remove", 1, p, "s2", 0) : p \in {<<"a">>, <<"b">>}},
                {Op("Lookup", 1, q, "", 0) : q \in {<<"a">>, <<"b">>}} >>]

\* Thread 1 inserts and removes a two-word pattern; thread 2 inserts its
\* prefix or a sibling below the same child.
SharedPrefix ==
    [t \in Threads |->
        IF t = 1
        THEN << {Op("Insert", 1, <<"a", "b">>, "s1", 0)},
                {Op("Remove", 1, <<"a", "b">>, "s1", 0),
                 Op("Lookup", 1, <<"a">>, "", 0)},
                {Op("Lookup", 1, <<"a", "b">>, "", 0)} >>
        ELSE << {Op("Insert", 1, p, "s2", 0) : p \in {<<"a">>, <<"a", "c">>}},
                {Op("Lookup", 1, q, "", 0) : q \in {<<"a">>, <<"a", "c">>}} >>]

InitConc ==
    /\ InitTrie
    /\ script \in {DistinctKeys, SharedPrefix}

SpecConc == InitConc /\ [][NextSeq]_vars

\* Some thread has called Insert on trie h with a pattern that matches the
\* words q, for subscriber s.
InsertInvoked(h, q, s) ==
    \E u \in Threads : \E n \in 1 .. Len(hist[u]) :
        /\ hist[u][n].op = "Insert"
        /\ hist[u][n].h = h
        /\ hist[u][n].sub = s
        /\ Matches(mutatorKeys(hist[u][n].topic), q)

\* C11: a Lookup(k) returns only subscribers for which an Insert(k, s) was
\* called before the Lookup returned.
C11_NoPhantom ==
    \A t \in Threads :
        Returned(t, "Lookup") =>
            \A s \in cur[t].res :
                InsertInvoked(cur[t].h, Split(cur[t].topic, config.Delimiter), s)

\* A Lookup of a single-word topic that returned a subscriber while the
\* other thread's subscriber, inserted under the other key only, is in the
\* trie.
C11_Witness ==
    \E t \in Threads :
        /\ Returned(t, "Lookup")
        /\ cur[t].res # {}
        /\ Len(Split(cur[t].topic, config.Delimiter)) = 1
        /\ \E pr \in Registered(1) :
              /\ pr[1] # Split(cur[t].topic, config.Delimiter)
              /\ pr[2] \notin cur[t].res
              /\ ~InsertInvoked(1, Split(cur[t].topic, config.Delimiter), pr[2])

\* Every call of every thread has returned and no call is left to make,
\* thread t's last call apart.
AllReturnedBut(t) ==
    /\ \A u \in Threads \ {t} :
          script[u] = <<>> /\ \A n \in 1 .. Len(hist[u]) : hist[u][n].st = "done"
    /\ \A n \in 1 .. Len(hist[t]) - 1 : hist[t][n].st = "done"

\* C12: a Lookup(k) called when every Insert and Remove has returned
\* contains s exactly when the last completed call on (k, s) was an Insert.
C12_FinalState ==
    \A t \in Threads :
        (Returned(t, "Lookup") /\ cur[t].quiet /\ AllReturnedBut(t))
        => cur[t].res =
             {s \in {"s1", "s2"} :
                <<Split(cur[t].topic, config.Delimiter), s>> \in reg[cur[t].h]}


(***************************************************************************)
(* One thread, no snapshot: sequences of calls that repeat or undo one     *)
(* another.                                                                *)
(***************************************************************************)
Patterns == SeqsUpTo(Words, MaxLen)
Topics == SeqsUpTo(Literals, MaxLen)

\* Insert(p, s1) twice and a Lookup of p, on a trie that holds s2 at p0.
InsertTwice ==
    { << {Op("Insert", 1, p0, "s2", 0)}, {Op("Insert", 1, p, "s1", 0)},
         {Op("Insert", 1, p, "s1", 0)}, {Op("Lookup", 1, p, "", 0)} >> :
        p0 \in {<<"a">>, <<"a", "b">>, <<"#">>, <<"*", "b">>}, p \in Patterns }

\* Remove(p, s1) twice, with a Lookup of q before, between and after, on a
\* trie that holds s2 at p0 and s1 at p1.
RemoveTwice ==
    { << {Op("Insert", 1, p0, "s2", 0)}, {Op("Insert", 1, p1, "s1", 0)},
         {Op("Lookup", 1, q, "", 0)}, {Op("Remove", 1, p, "s1", 0)},
         {Op("Lookup", 1, q, "", 0)}, {Op("Remove", 1, p, "s1", 0)},
         {Op("Lookup", 1, q, "", 0)} >> :
        p0 \in {<<"a">>, <<"a", "b">>},
        p1 \in {<<"a">>, <<"a", "b">>, <<"b">>},
        p \in {<<"a">>, <<"a", "b">>, <<"a", "b", "a">>, <<"b", "a">>},
        q \in {<<"a">>, <<"a", "b">>, <<"b">>} }

\* Insert(p, s1) and Remove(p, s1) on a new trie, then a Lookup of p and a
\* Lookup of q.
RoundTrip ==
    { << {Op("Insert", 1, p, "s1", 0)}, {Op("Remove", 1, p, "s1", 0)},
         {Op("Lookup", 1, p, "", 0)}, {Op("Lookup", 1, q, "", 0)} >> :
        p \in Patterns, q \in SeqsUpTo(Literals, 2) }

AlgScripts == InsertTwice \cup RemoveTwice \cup RoundTrip

InitAlg ==
    /\ InitTrie
    /\ \E s \in AlgScripts :
          script = [t \in Threads |-> IF t = 1 THEN s ELSE <<>>]

SpecAlg == InitAlg /\ [][NextSeq]_vars

\* The n-th call before the last one thread t made (0: the last one) is a
\* call of op that has returned.
Was(t, n, op) ==
    /\ Len(hist[t]) > n
    /\ hist[t][Len(hist[t]) - n].op = op
    /\ hist[t][Len(hist[t]) - n].st = "done"

Ago(t, n) == hist[t][Len(hist[t]) - n]

SameCall(a, b) ==
    a.op = b.op /\ a.h = b.h /\ a.topic = b.topic /\ a.sub = b.sub

\* C13: a Lookup(t) that follows Insert(t, s) holds s once, and an
\* Insert(t, s) that follows an Insert(t, s) leaves the registered pairs of
\* the trie as they were.
C13_InsertIdempotent ==
    \A t \in Threads :
        /\ (Was(t, 0, "Lookup") /\ Was(t, 1, "Insert")
            /\ Ago(t, 1).topic = Ago(t, 0).topic)
           => (Ago(t, 1).sub \in Ago(t, 0).res /\ ~Ago(t, 0).dup)
        /\ (Was(t, 0, "Insert") /\ Was(t, 1, "Insert")
            /\ SameCall(Ago(t, 0), Ago(t, 1)))
           => Registered(Ago(t, 0).h) = atCall[t][Ago(t, 0).h]


\* C14: a Remove(t, s) of a pair that is not registered, or that follows the
\* same Remove, returns (no two of its restarts find the trie in the same
\* shape), and the Lookup that follows it returns what the Lookup of the same
\* topic before it returned.
C14_RemoveIdempotent ==
    \A t \in Threads :
        LET again(n) == Was(t, n + 2, "Remove")
                        /\ Was(t, n + 1, "Lookup")
                        /\ SameCall(Ago(t, n), Ago(t, n + 2))
        IN
        /\ (Len(hist[t]) > 0 /\ Ago(t, 0).op = "Remove"
            /\ (~Ago(t, 0).was \/ again(0)))
           => \A j, k \in 1 .. Len(cur[t].shapes) :
                 j < k => cur[t].shapes[j] # cur[t].shapes[k]
        /\ (Was(t, 0, "Lookup") /\ Was(t, 1, "Remove") /\ Was(t, 2, "Lookup")
            /\ Ago(t, 0).topic = Ago(t, 2).topic
            /\ (~Ago(t, 1).was \/ again(1)))
           => Ago(t, 0).res = Ago(t, 2).res


\* The branch map of the committed C-node of the root of trie h is empty.
RootEmpty(h) ==
    LET m == committedMain(inodes, mains, committedRoot(tries, descs, h)) IN
    m # Nil /\ mains[m].kind = "c" /\ DOMAIN mains[m].branches = {}

\* C15: after Insert(t, s); Remove(t, s) on a new trie, the Lookups return
\* the empty set, and when a Lookup of t and one more Lookup have returned
\* the branch map of the root is empty.
C15_RoundTrip ==
    \A t \in Threads :
        /\ (Was(t, 0, "Lookup") /\ Was(t, 1, "Remove") /\ Was(t, 2, "Insert")
            /\ Len(hist[t]) = 3 /\ SameCall(Ago(t, 1), [Ago(t, 2) EXCEPT !.op = "Remove"]))
           => Ago(t, 0).res = {}
        /\ (Was(t, 0, "Lookup") /\ Was(t, 1, "Lookup") /\ Was(t, 2, "Remove")
            /\ Was(t, 3, "Insert") /\ Len(hist[t]) = 4
            /\ Ago(t, 1).topic = Ago(t, 2).topic
            /\ SameCall(Ago(t, 2), [Ago(t, 3) EXCEPT !.op = "Remove"]))
           => (Ago(t, 0).res = {} /\ RootEmpty(Ago(t, 0).h))


(***************************************************************************)
(* One thread: patterns with zero-or-more wildcards.                       *)
(***************************************************************************)
\* s1 at a.#, then s2 at a pattern that extends a.# or lies beside it, and a
\* Lookup of a topic that begins with a.
TrailingWildcard ==
    { << {Op("Insert", 1, <<"a", "#">>, "s1", 0)},
         {Op("Insert", 1, p, "s2", 0)}, {Op("Lookup", 1, q, "", 0)} >> :
        p \in {<<"a", "#", "b">>, <<"a", "#", "*">>, <<"a", "b">>, <<"b">>,
               <<"a", "*">>},
        q \in {r \in Topics : r[1] = "a"} }

\* The words of a pattern with every run of zero-or-more wildcards collapsed
\* to one.
RECURSIVE Collapsed(_)
Collapsed(ws) ==
    IF Len(ws) < 2 THEN ws
    ELSE IF ws[1] = amqpZeroOrMoreWildcard /\ ws[2] = amqpZeroOrMoreWildcard
    THEN Collapsed(Tail(ws))
    ELSE <<ws[1]>> \o Collapsed(Tail(ws))

\* Insert(p, s1), Remove(p2, s1) for two spellings of one pattern, and a
\* Lookup.
SameReduction ==
    LET starred == {r \in Patterns :
                      amqpZeroOrMoreWildcard \in {r[n] : n \in 1 .. Len(r)}}
    IN { << {Op("Insert", 1, x[1], "s1", 0)}, {Op("Remove", 1, x[2], "s1", 0)},
            {Op("Lookup", 1, q, "", 0)} >> :
           x \in {y \in starred \X starred : Collapsed(y[1]) = Collapsed(y[2])},
           q \in SeqsUpTo(Literals, 2) }

InitWild ==
    /\ InitTrie
    /\ \E s \in TrailingWildcard \cup SameReduction :
          script = [t \in Threads |-> IF t = 1 THEN s ELSE <<>>]

SpecWild == InitWild /\ [][NextSeq]_vars

\* words q begin with words p.
Begins(q, p) == Len(p) <= Len(q) /\ SubSeq(q, 1, Len(p)) = p

\* C16: a Lookup of p or of p.w returns every subscriber registered at p.#,
\* p a sequence of literal words.
C16_TrailingWildcard ==
    \A t \in Threads :
        Was(t, 0, "Lookup") =>
            \A r \in reg[Ago(t, 0).h] :
                (/\ Len(r[1]) > 1
                 /\ r[1][Len(r[1])] = amqpZeroOrMoreWildcard
                 /\ \A n \in 1 .. Len(r[1]) - 1 : r[1][n] \in Literals
                 /\ Begins(Split(Ago(t, 0).topic, config.Delimiter),
                           SubSeq(r[1], 1, Len(r[1]) - 1)))
                => r[2] \in Ago(t, 0).res


ReadOnlyScript ==
    << {Op("Insert", 1, <<"a", "b">>, "s1", 0)},
       {SnapOp("Snapshot", 1, 0)},
       {Op("Remove", 1, <<"a", "b">>, "s1", 0),
        Op("Insert", 1, <<"a", "c">>, "s2", 0)},
       {SnapOp("ReadOnlySnapshot", 1, 0)},
       {Op("Lookup", 3, <<"a", "b">>, "", 0), SnapOp("Snapshot", 3, 0),
        SnapOp("ReadOnlySnapshot", 3, 0)},
       {Op("Lookup", 3, <<"a", "c">>, "", 0), SnapOp("Snapshot", 3, 0),
        SnapOp("ReadOnlySnapshot", 3, 0), Op("Lookup", 2, <<"a", "b">>, "", 0),
        Op("Remove", 2, <<"a", "b">>, "s1", 0)} >>

InitRO ==
    /\ InitTrie
    /\ script = [t \in Threads |-> IF t = 1 THEN ReadOnlyScript ELSE <<>>]

SpecRO == InitRO /\ [][Next]_vars

\* C18: Lookup, Snapshot and ReadOnlySnapshot on a read-only trie do not
\* panic.
C18_OnlyMutatorsAbort ==
    \A t \in Threads :
        (cur[t].op \in {"Lookup", "Snapshot", "ReadOnlySnapshot"}
         /\ tries[cur[t].h].readOnly)
        => status[t] # "panic"

\* C19: the step ReadOnlySnapshot takes on a read-only trie returns the same
\* handle and leaves the heap, the root slots and the generations alone.
C19_ReadOnlySnapshotIdempotent ==
    [][\A t \in Threads :
          (/\ Running(t, "ReadOnlySnapshot")
           /\ tries[Top(t).c].readOnly
           /\ stack'[t] # stack[t])
          => /\ status'[t] = "done"
             /\ ret'[t] = Top(t).c
             /\ tries' = tries
             /\ descs' = descs
             /\ ngen' = ngen
             /\ inodes' = inodes
             /\ mains' = mains]_vars

\* ReadOnlySnapshot has returned on a read-only trie that holds a
\* subscription.
C19_Witness ==
    \E t \in Threads :
        /\ Returned(t, "ReadOnlySnapshot")
        /\ tries[cur[t].h].readOnly
        /\ ret[t] = cur[t].h
        /\ Registered(cur[t].h) # {}


\* The main node that a GCAS on I-node i replaced, when the node i holds
\* carries the failed marker: prev.failed of gcasComplete.
RolledBackFrom(i) ==
    LET m == inodes[i].main IN
    IF m # Nil /\ mains[m].prev # Nil /\ mains[mains[m].prev].kind = "f"
    THEN mains[mains[m].prev].failed
    ELSE Nil

\* C20: an I-node whose main node carries the failed marker and whose main
\* node is swapped gets back exactly the main node it held before the GCAS,
\* and that node is committed, so that gcasRead returns it.
C20_RollbackRestoresOld ==
    [][\A i \in DOMAIN inodes :
          (RolledBackFrom(i) # Nil /\ inodes'[i].main # inodes[i].main)
          => /\ inodes'[i].main = RolledBackFrom(i)
             /\ mains'[inodes'[i].main].prev = Nil]_vars


\* C21: every I-node's main pointer is non-nil and designates a C-node or a
\* T-node, and no call ends in the invalid-state panic or a nil dereference.
C21_MainNodeValid ==
    /\ \A i \in DOMAIN inodes :
           /\ inodes[i].main # Nil
           /\ mains[inodes[i].main].kind \in {"c", "t"}
    /\ \A t \in Threads :
           status[t] = "panic" => ret[t] \notin {nilDeref, invalidState}


InsertBelowRoot ==
    [t \in Threads |->
        IF t = 1
        THEN << {Op("Insert", 1, <<"a", "b">>, "s1", 0)},
                {Op("Remove", 1, <<"a", "b">>, "s1", 0)},
                {Op("Lookup", 1, <<"a", "b">>, "", 0)},
                {Op("Insert", 1, <<"a", "b">>, "s1", 0)},
                {SnapOp("Snapshot", 1, 0)},
                {Op("Insert", 1, <<"a", "c">>, "s2", 0),
                 Op("Lookup", 1, <<"a", "b">>, "", 0)} >>
        ELSE << {SnapOp("ReadOnlySnapshot", 1, 2)} >>]

InitBelow ==
    /\ InitTrie
    /\ script = InsertBelowRoot

SpecBelow == InitBelow /\ [][Next]_vars


\* C23: when the GCAS that installs the renewed C-node in bLookup fails,
\* bLookup returns (nil, false).
C23_FailedRenewalRetries ==
    [][\A t \in Threads :
          (/\ Running(t, "bLookup")
           /\ Top(t).pc = "g"
           /\ ret[t] = FALSE
           /\ stack'[t] # stack[t])
          => /\ stack'[t] = Tail(stack[t])
             /\ ret'[t] = retry]_vars


\* C24: Insert, Remove and Lookup never take an RDCSS descriptor found in the
\* root slot for the root I-node.
C24_RootReadIsINode == halted # descriptorAsINode


\* C25: a step that takes descriptor d out of the root slot is a step of
\* rdcssComplete; it puts d.nv there when the completion is not an abort and
\* its gcasRead of d.old returned d.expected, and d.old otherwise.  No main
\* node that a GCAS put in d.old between that gcasRead and the swap to d.nv
\* is ever committed.
C25_RdcssCommitsOnWitness ==
    [][/\ \A c \in DOMAIN tries :
             (tries[c].root.desc /\ tries'[c].root # tries[c].root)
             => LET d == descs[tries[c].root.id] IN
                \E t \in Threads :
                   /\ Running(t, "rdcssComplete")
                   /\ Top(t).c = c
                   /\ stack'[t] # stack[t]
                   /\ tries'[c].root =
                         IF Top(t).pc = "chk" /\ ret[t] = d.expected
                         THEN iref(d.nv) ELSE iref(d.old)
       /\ \A d \in DOMAIN descs' :
             descs'[d].raced # Nil => mains'[descs'[d].raced].prev # Nil]_vars


\* C26: rdcssRoot returns true exactly when the root slot of the trie was
\* swapped from its descriptor to nv.  (nv is a fresh I-node: it was in the
\* root slot if it is there now or if a later descriptor names it as old.)
C26_RdcssRootReportsOutcome ==
    [][\A t \in Threads :
          (/\ Running(t, "rdcssRoot")
           /\ Top(t).pc = "rd"
           /\ stack'[t] # stack[t] \/ halted' # halted)
          => LET nv == descs[Top(t).d].nv IN
             /\ halted' = ""
             /\ ret'[t] = (\/ tries[Top(t).c].root = iref(nv)
                           \/ \E d \in DOMAIN descs : descs[d].old = nv)]_vars


\* C27: a gcasComplete that finds a descriptor in the root slot goes on to
\* abort it: its root read enters rdcssComplete with abort set, and the CAS of
\* the abort puts descriptor.old back and returns it, whatever the thread
\* that installed the descriptor does.  When rdcssComplete has returned to
\* rdcssRoot the root slot does not hold the descriptor of that call.
C27_DescriptorTransient ==
    [][/\ \A t \in Threads :
             (/\ halted = ""
              /\ status[t] = "run"
              /\ Len(stack[t]) > 1
              /\ stack[t][2].fn = "gcasComplete"
              /\ Top(t).fn \in {"rdcssReadRoot", "rdcssComplete"}
              /\ tries[Top(t).c].root.desc
              /\ stack'[t] # stack[t])
             => LET d == tries[Top(t).c].root.id IN
                IF Top(t).fn = "rdcssComplete" /\ Top(t).pc = "abort"
                THEN Top(t).d = d
                     => /\ tries'[Top(t).c].root = iref(descs[d].old)
                        /\ ret'[t] = descs[d].old
                        /\ stack'[t] = Tail(stack[t])
                ELSE /\ Len(stack'[t]) = Len(stack[t])
                     /\ stack'[t][1].fn = "rdcssComplete"
                     /\ stack'[t][1].abort
                     /\ stack'[t][1].pc \in {"top", "abort"}
       /\ \A t \in Threads :
             (/\ status'[t] = "run"
              /\ stack'[t] # <<>>
              /\ stack'[t][1].fn = "rdcssRoot"
              /\ stack'[t][1].pc = "rd")
             => tries'[stack'[t][1].c].root # dref(stack'[t][1].d)]_vars

\* A thread in gcasComplete has read the root after aborting the descriptor
\* that another thread, still in the rdcssComplete of its rdcssRoot, had
\* installed.
C27_Witness ==
    \E t, u \in Threads :
        /\ Running(t, "gcasComplete")
        /\ Top(t).pc = "root"
        /\ Running(u, "rdcssComplete")
        /\ Top(u).pc = "chk"
        /\ ~Top(u).abort
        /\ tries[Top(u).c].root = iref(descs[Top(u).d].old)
        /\ ret[t] = descs[Top(u).d].old
        /\ Len(stack[u]) > 1
        /\ stack[u][2].fn = "rdcssRoot"
        /\ stack[u][2].d = Top(u).d


\* C28: iinsert and iremove run on I-nodes of the generation startGen only,
\* every GCAS they issue targets the I-node they run on, and the C-node they
\* install when a child has another generation holds, for every child, an
\* I-node of generation startGen that the replaced C-node did not hold.
C28_WritesInOwnGeneration ==
    \A t \in Threads :
        status[t] = "run" =>
            /\ \A k \in DOMAIN stack[t] :
                  stack[t][k].fn \in {"iinsert", "iremove"}
                  => inodes[stack[t][k].i].gen = stack[t][k].startGen
            /\ (/\ Len(stack[t]) > 1
                /\ Top(t).fn = "gcas"
                /\ stack[t][2].fn \in {"iinsert", "iremove"})
               => /\ Top(t).in = stack[t][2].i
                  /\ inodes[Top(t).in].gen = stack[t][2].startGen
            /\ (/\ Top(t).fn \in {"iinsert", "iremove"}
                /\ Top(t).pc \in {"B_rn", "R_rn"})
               => \A k \in DOMAIN ret[t].branches :
                     LET new == ret[t].branches[k].iNode
                         old == mains[Top(t).main].branches[k].iNode
                     IN new # Nil
                        => inodes[new].gen = Top(t).startGen /\ new # old

\* An Insert or Remove has installed a renewed C-node above a child of
\* another generation.
C28_Witness ==
    \E t \in Threads :
        /\ status[t] = "run"
        /\ stack[t] # <<>>
        /\ Top(t).fn \in {"iinsert", "iremove"}
        /\ Top(t).pc \in {"B_g", "R_g"}
        /\ ret[t] = TRUE
        /\ \E k \in DOMAIN mains[Top(t).main].branches :
              LET old == mains[Top(t).main].branches[k].iNode
              IN old # Nil /\ inodes[old].gen # Top(t).startGen


\* The I-nodes that the branches of the main node of I-node i, and of the
\* main nodes below it, point to.
RECURSIVE below(_)
below(i) ==
    LET m == inodes[i].main IN
    IF m = Nil \/ mains[m].kind # "c" THEN {}
    ELSE UNION {IF mains[m].branches[k].iNode = Nil THEN {}
                ELSE {mains[m].branches[k].iNode}
                         \cup below(mains[m].branches[k].iNode)
                : k \in DOMAIN mains[m].branches}

\* C29 (I1): the main node of every I-node below the root of a trie is a
\* C-node with at least one branch or a T-node.
C29_NonRootNotEmpty ==
    \A h \in DOMAIN tries :
        \A i \in below(committedRoot(tries, descs, h)) :
            /\ inodes[i].main # Nil
            /\ \/ mains[inodes[i].main].kind = "t"
               \/ /\ mains[inodes[i].main].kind = "c"
                  /\ DOMAIN mains[inodes[i].main].branches # {}


\* C30 (I2): no C-node that is the main node of an I-node holds a branch
\* with no subscriber and no child I-node.
C30_NoEmptyBranch ==
    \A i \in DOMAIN inodes :
        LET m == inodes[i].main IN
        (m # Nil /\ mains[m].kind = "c")
        => \A k \in DOMAIN mains[m].branches :
              ~(/\ mains[m].branches[k].subs = {}
                /\ mains[m].branches[k].iNode = Nil)

\* A Remove of a registered pair has returned, and the trie still holds a
\* branch without subscribers, kept for its child I-node.
C30_Witness ==
    \E t \in Threads :
        /\ Was(t, 0, "Remove")
        /\ Ago(t, 0).st = "done"
        /\ Ago(t, 0).was
        /\ \E i \in below(committedRoot(tries, descs, Ago(t, 0).h))
                    \cup {committedRoot(tries, descs, Ago(t, 0).h)} :
              LET m == inodes[i].main IN
              /\ m # Nil
              /\ mains[m].kind = "c"
              /\ \E k \in DOMAIN mains[m].branches :
                    mains[m].branches[k].subs = {}


(***************************************************************************)
(* Compression.                                                            *)
(***************************************************************************)
\* C31: when a Remove that ran alone has replaced the main node of an I-node
\* below the root by a T-node and has returned, no C-node of the trie holds
\* a branch without subscribers that points to a tombed I-node: the parent
\* has been compressed.
C31_ParentCompressed ==
    \A t \in Threads :
        (Was(t, 0, "Remove") /\ Ago(t, 0).was)
        => \A p \in below(committedRoot(tries, descs, Ago(t, 0).h))
                    \cup {committedRoot(tries, descs, Ago(t, 0).h)} :
              LET m == inodes[p].main IN
              (m # Nil /\ mains[m].kind = "c")
              => \A k \in DOMAIN mains[m].branches :
                    LET br == mains[m].branches[k] IN
                    ~(/\ br.subs = {}
                      /\ br.iNode # Nil
                      /\ inodes[br.iNode].main # Nil
                      /\ mains[inodes[br.iNode].main].kind = "t")


(***************************************************************************)
(* Two threads: a Remove that empties a trie while a snapshot of the trie   *)
(* is taken.                                                               *)
(***************************************************************************)
\* Thread 1 inserts a one-word pattern, removes it, which empties the root,
\* and looks it up, while thread 2 takes a snapshot of the trie.
RemoveDuringSnapshot ==
    [t \in Threads |->
        IF t = 1
        THEN << {Op("Insert", 1, <<"a">>, "s1", 0)},
                {Op("Remove", 1, <<"a">>, "s1", 0)},
                {Op("Lookup", 1, <<"a">>, "", 0)} >>
        ELSE << {SnapOp("Snapshot", 1, 0), SnapOp("ReadOnlySnapshot", 1, 0)} >>]

\* One thread removes a two-word pattern from a trie of which a snapshot
\* was taken, which empties an I-node below the root, and looks it up.
RemoveBelowRoot ==
    [t \in Threads |->
        IF t = 1
        THEN << {Op("Insert", 1, <<"a", "b">>, "s1", 0)},
                {SnapOp("Snapshot", 1, 0), SnapOp("ReadOnlySnapshot", 1, 0)},
                {Op("Remove", 1, <<"a", "b">>, "s1", 0)},
                {Op("Lookup", h, <<"a", "b">>, "", 0) : h \in {1, 2}} >>
        ELSE << >>]

InitRoot ==
    /\ InitTrie
    /\ script \in {RemoveDuringSnapshot, RemoveBelowRoot}

SpecRoot == InitRoot /\ [][Next]_vars

\* C32: the main node of the root I-node of a trie, of a snapshot or of a
\* read-only snapshot is never a T-node, committed or not, and clean is
\* never called with a nil I-node.
C32_RootNeverTombed ==
    /\ \A h \in DOMAIN tries :
          LET m == inodes[committedRoot(tries, descs, h)].main IN
          m # Nil => mains[m].kind # "t"
    /\ \A t \in Threads :
          (stack[t] # <<>> /\ Top(t).fn = "clean") => Top(t).i # Nil


(***************************************************************************)
(* Two threads: a Remove that tombs an I-node while a read-only snapshot   *)
(* of the trie is taken and read.                                          *)
(***************************************************************************)
\* Thread 1 inserts a two-word pattern, takes a snapshot and removes the
\* pattern; thread 2, once the first snapshot is taken, takes a read-only
\* snapshot of the trie and looks the pattern up in it.
LookupDuringRemove ==
    [t \in Threads |->
        IF t = 1
        THEN << {Op("Insert", 1, <<"a", "b">>, "s1", 0)},
                {SnapOp("Snapshot", 1, 0)},
                {Op("Remove", 1, <<"a", "b">>, "s1", 0)} >>
        ELSE << {SnapOp("ReadOnlySnapshot", 1, 2)},
                {Op("Lookup", 3, <<"a", "b">>, "", 0)} >>]

InitPrune ==
    /\ InitTrie
    /\ script = LookupDuringRemove

SpecPrune == InitPrune /\ [][Next]_vars


\* Thread t takes a step inside clean or cleanParent, or inside a call made
\* on their behalf (toCompressed, gcas and what gcas calls).
Compressing(t) ==
    /\ stack'[t] # stack[t]
    /\ \E k \in DOMAIN stack[t] : stack[t][k].fn \in {"clean", "cleanParent"}

\* C33: a step of clean, cleanParent or toCompressed leaves the registered
\* (pattern, subscriber) pairs, hence the result of every Lookup, as they are
\* in every trie that no other thread is inserting into or removing from
\* (as long as every rdcssRoot has returned the flag of its descriptor).
C33_CompressionKeepsPairs ==
    [][\A t \in Threads :
          (Compressing(t) /\ ~stray)
          => \A h \in DOMAIN tries :
                (\A u \in Threads \ {t} : ~mutating(u, h))
                => Registered(h)' = Registered(h)]_vars


\* C34: no step of a Lookup, its clean and its renewal gcas included, changes
\* the registered (pattern, subscriber) pairs of a trie that no other thread
\* is inserting into or removing from (as long as every rdcssRoot has
\* returned the flag of its descriptor).
C34_LookupKeepsPairs ==
    [][\A t \in Threads :
          (/\ status[t] = "run"
           /\ cur[t].op = "Lookup"
           /\ stack'[t] # stack[t]
           /\ ~stray)
          => \A h \in DOMAIN tries :
                (\A u \in Threads \ {t} : ~mutating(u, h))
                => Registered(h)' = Registered(h)]_vars


(***************************************************************************)
(* One thread: one subscriber under several patterns.                      *)
(***************************************************************************)
\* s1 at a pattern with a wildcard or at a prefix, s1 again at a second
\* pattern, a Lookup, a Remove of the second pattern and the Lookup again.
SameSubscriber ==
    { << {Op("Insert", 1, p1, "s1", 0)}, {Op("Insert", 1, p2, "s1", 0)},
         {Op("Lookup", 1, q, "", 0)}, {Op("Remove", 1, p2, "s1", 0)},
         {Op("Lookup", 1, q, "", 0)} >> :
        p1 \in {<<"#">>, <<"*">>, <<"a">>, <<"a", "#">>},
        p2 \in SeqsUpTo(Words, 2),
        q \in SeqsUpTo(Literals, 2) }

InitSame ==
    /\ InitTrie
    /\ \E s \in SameSubscriber :
          script = [t \in Threads |-> IF t = 1 THEN s ELSE <<>>]

SpecSame == InitSame /\ [][NextSeq]_vars

\* C35: the slice a Lookup returns holds no subscriber twice.
C35_LookupIsSet ==
    \A t \in Threads :
        \A k \in DOMAIN hist[t] :
            (hist[t][k].op = "Lookup" /\ hist[t][k].st = "done")
            => ~hist[t][k].dup

\* A Lookup has returned a subscriber that is registered under two patterns
\* that both match the topic.
C35_Witness ==
    \E t \in Threads :
        /\ Was(t, 0, "Lookup")
        /\ \E s \in Ago(t, 0).res :
              \E x, y \in Registered(Ago(t, 0).h) :
                 /\ x # y
                 /\ x[2] = s
                 /\ y[2] = s
                 /\ Matches(x[1], Split(Ago(t, 0).topic, config.Delimiter))
                 /\ Matches(y[1], Split(Ago(t, 0).topic, config.Delimiter))


\* C36: the tokens of Snapshot and ReadOnlySnapshot are fresh, so the root
\* I-nodes of two tries, when they are two I-nodes, never have the same
\* generation: a snapshot gives the original and a writable snapshot each a
\* root of a generation that no I-node had before.
C36_FreshTokens ==
    \A h1, h2 \in DOMAIN tries :
        LET r1 == committedRoot(tries, descs, h1)
            r2 == committedRoot(tries, descs, h2)
        IN r1 # r2 => inodes[r1].gen # inodes[r2].gen


(***************************************************************************)
(* Two threads, no snapshot: Inserts of two subscribers at one topic.      *)
(***************************************************************************)
\* Thread 1 inserts s1 at a topic, looks the topic up, removes s1 and looks
\* the topic up again; thread 2 inserts s2 at the same topic and removes it.
SameKey ==
    { [t \in Threads |->
        IF t = 1
        THEN << {Op("Insert", 1, p, "s1", 0)}, {Op("Lookup", 1, p, "", 0)},
                {Op("Remove", 1, p, "s1", 0)}, {Op("Lookup", 1, p, "", 0)} >>
        ELSE << {Op("Insert", 1, p, "s2", 0)},
                {Op("Remove", 1, p, "s2", 0)} >>] :
      p \in {<<"a">>, <<"a", "b">>} }

InitKey ==
    /\ InitTrie
    /\ script \in SameKey

SpecKey == InitKey /\ [][NextSeq]_vars

\* C37: when the last calls of two threads are Inserts of two subscribers at
\* one topic of one trie and both have returned, the trie holds both pairs;
\* and a Lookup of the topic that was called when the trie held both, with
\* no Insert or Remove on the trie since, returns both subscribers.
C37_NoLostInsert ==
    /\ \A t, u \in Threads :
          (/\ t # u
           /\ Was(t, 0, "Insert")
           /\ Was(u, 0, "Insert")
           /\ Ago(t, 0).h = Ago(u, 0).h
           /\ Ago(t, 0).topic = Ago(u, 0).topic)
          => {thePair(Ago(t, 0)), thePair(Ago(u, 0))}
                \subseteq Registered(Ago(t, 0).h)
    /\ \A t \in Threads :
          (Returned(t, "Lookup") /\ cur[t].quiet)
          => \A x, y \in atCall[t][cur[t].h] :
                (/\ x[1] = mutatorKeys(cur[t].topic)
                 /\ y[1] = x[1]
                 /\ x[2] # y[2])
                => {x[2], y[2]} \subseteq cur[t].res

\* Two Inserts at one topic have returned, one of them after its gcas failed
\* and it restarted, and the trie holds both pairs.
C37_Witness ==
    \E t, u \in Threads :
        /\ t # u
        /\ Was(t, 0, "Insert")
        /\ Was(u, 0, "Insert")
        /\ Ago(t, 0).topic = Ago(u, 0).topic
        /\ restarts[u] > 0
        /\ {thePair(Ago(t, 0)), thePair(Ago(u, 0))} \subseteq Registered(1)

(***************************************************************************)
(* One thread: patterns with runs of zero-or-more wildcards.               *)
(***************************************************************************)
\* Longest pattern, in words, drawn from a literal and the zero-or-more
\* wildcard.
MaxWords == 5

\* The inputs of TestReduceZeroOrMoreWildcards, and every sequence of "a"
\* and "#" of the bound.
ReduceInputs ==
    { <<"a", "b", "c", "d">>, <<"a", "#", "c", "d">>, <<"a", "#", "#", "d">>,
      <<"a", "#", "#", "#">>,
      <<"a", "#", "#", "b", "#", "c", "#", "#", "#", "d">> }
    \cup SeqsUpTo({"a", amqpZeroOrMoreWildcard}, MaxWords)

\* Insert(p, s1), a Lookup, Remove(p, s1) and the Lookup again, on a trie
\* that holds s2 at "a.a".
ReduceScript ==
    { << {Op("Insert", 1, <<"a", "a">>, "s2", 0)},
         {Op("Insert", 1, p, "s1", 0)}, {Op("Lookup", 1, q, "", 0)},
         {Op("Remove", 1, p, "s1", 0)}, {Op("Lookup", 1, q, "", 0)} >> :
        p \in ReduceInputs, q \in {<<"a">>, <<"a", "a">>} }

InitReduce ==
    /\ InitTrie
    /\ \E s \in ReduceScript :
          script = [t \in Threads |-> IF t = 1 THEN s ELSE <<>>]

SpecReduce == InitReduce /\ [][NextSeq]_vars

\* Thread t is in an Insert or a Remove that has just passed its reduced
\* words to iinsert or iremove at the root.
AtRoot(t) ==
    /\ status[t] = "run"
    /\ cur[t].op \in Mutators
    /\ stack[t] # <<>>
    /\ Top(t).fn \in {"iinsert", "iremove"}
    /\ Top(t).parent = Nil
    /\ Top(t).pc = "load"

\* The positions of words that do not follow a zero-or-more wildcard with
\* another one.
Kept(words) ==
    {i \in 1 .. Len(words) :
        ~(/\ words[i] = amqpZeroOrMoreWildcard
          /\ i > 1
          /\ words[i - 1] = amqpZeroOrMoreWildcard)}

NoRun(words) == Kept(words) = 1 .. Len(words)

\* C38: the words an Insert or a Remove hands to the trie are the words of
\* its topic with every maximal run of zero-or-more wildcards replaced by
\* one: no two adjacent zero-or-more wildcards, the other words kept in
\* their order, words without such a run unchanged, and reducing the result
\* again changes nothing.
C38_RunsReduced ==
    \A t \in Threads :
        AtRoot(t) =>
            LET words == Split(cur[t].topic, config.Delimiter)
                out == Top(t).keys
                other(ws) == SelectSeq(ws, LAMBDA w : w # config.ZeroOrMoreWildcard)
            IN /\ Len(out) = Cardinality(Kept(words))
               /\ \A i \in Kept(words) :
                     out[Cardinality({j \in Kept(words) : j <= i})] = words[i]
               /\ NoRun(out)
               /\ other(out) = other(words)
               /\ NoRun(words) => out = words
               /\ reduceZeroOrMoreWildcards(config, out) = out

\* An Insert or a Remove of a topic with a run of three zero-or-more
\* wildcards, and with another such wildcard apart from the run, has reduced
\* its words.
C38_Witness ==
    \E t \in Threads :
        /\ AtRoot(t)
        /\ LET words == Split(cur[t].topic, config.Delimiter)
           IN /\ \E i \in 1 .. Len(words) - 2 :
                    \A j \in i .. i + 2 : words[j] = amqpZeroOrMoreWildcard
              /\ Cardinality({i \in Kept(words) :
                                 words[i] = amqpZeroOrMoreWildcard}) > 1
              /\ Len(Top(t).keys) < Len(words)

====
